---- MODULE Spec2Model ----
(***************************************************************************)
(* A model of the dispatch core of dasbus: the Signal primitive, the       *)
(* ErrorMapper, the server-side method callback and the client-side call   *)
(* machinery, the MessageBus, the connection of a published object, the    *)
(* signal and property proxies of the client, the default property         *)
(* handlers of the server, the Unix file descriptors in variants, the      *)
(* marshalling of replies, the dispatch of a call to its handler, the      *)
(* signatures of type hints, the messages of remote errors, the cached     *)
(* specification of a client handler, the access to the services of a      *)
(* bus, the validation of an incoming call, the forwarding of the signals  *)
(* of a published object, the parameters of a method proxy, the cached     *)
(* connection of a bus, two threads on one client handler and the          *)
(* publication of an object with signals.  Each component has a            *)
(* specification of its own (SpecSignal, SpecMapper, SpecServer,           *)
(* SpecClientSync, SpecClientAsync, SpecBus, SpecRelease, SpecObject,      *)
(* SpecMembers, SpecFds, SpecProxy, SpecPublished, SpecReply,              *)
(* SpecDispatch, SpecTypes, SpecMessage, SpecCache, SpecAccess,            *)
(* SpecValidation, SpecForward, SpecMarshal, SpecConnecting, SpecSharing,  *)
(* SpecPublication); the                                                   *)
(* variables of the other components stay at their initial values there.   *)
(*                                                                         *)
(* Python strings are modelled as sequences of one-character strings, so   *)
(* that concatenation and str.startswith are computed, not assumed.        *)
(* Python exceptions are modelled as values: an operation returns a record *)
(* whose field "raised" is "none" or the name of the exception type.       *)
(***************************************************************************)
EXTENDS Integers, Sequences, FiniteSets, TLC

VARIABLES
    callbacks, \* Signal._callbacks: the list of registered callbacks
    emission, \* the position of a running Signal.emit
    sigLast, \* the last Signal operation and the list it acted on
    error_rules, \* ErrorMapper._error_rules: the ordered list of rules
    mapLast, \* the last ErrorMapper operation, its input and result
    invocation, \* the last incoming DBus call and what was done with it
    calls, \* the asynchronous client calls, by the order of issue
    clientLast, \* the last call of a method proxy and how it returned
    bus, \* the MessageBus, the handlers it made and the names it owns
    busLast, \* the last MessageBus operation and the state it acted on
    object, \* a ServerObjectHandler with its object and its connection
    objLast, \* the last connect_object or disconnect_object and the state before it
    members, \* the signal proxies of a ClientObjectHandler and their subscriptions
    membersLast, \* the last operation on the signal proxies and the state before it
    fds, \* the last call on a variant with Unix file descriptors, its arguments and result
    remote, \* the remote object behind the property proxies and the calls that reached it
    proxyLast, \* the last use of a property proxy and how it ended
    published, \* the attributes of the object published with properties
    publishedLast, \* the last call of Properties.Get or Set and its reply
    reply, \* the reply of the last method call, as sent and as received
    dispatch, \* the last call dispatched to a handler, and how the handler was called
    typing, \* the last type hint given to get_dbus_type and its result
    extraction, \* the last error given to get_remote_error_message and the message returned
    cache, \* a ClientObjectHandler with its cached specification and the last create_member
    access, \* a MessageBus with its services, and the last registration or get_proxy
    validation, \* the last incoming call, the uses of the published object and the reply
    forward, \* a connected ServerObjectHandler and the last emission of a signal of its object
    marshal, \* the last call of a method proxy and the parameters handed to the client library
    connecting, \* a MessageBus with its cached connection, and the last access to it
    sharing, \* a ClientObjectHandler used by two threads, and the position of each thread in the property specification
    publication \* a MessageBus with the handlers publish_object made, and the last operation on it

sigVars == <<callbacks, emission, sigLast>>

mapVars == <<error_rules, mapLast>>

\* The variables the Signal operations leave alone.
notSigVars ==
    <<error_rules, mapLast, invocation, calls, clientLast, bus, busLast,
      object, objLast, members, membersLast, fds, remote, proxyLast,
      published, publishedLast, reply, dispatch, typing, extraction, cache,
      access, validation, forward, marshal, connecting, sharing, publication>>

\* The variables the ErrorMapper operations leave alone.
notMapVars ==
    <<callbacks, emission, sigLast, invocation, calls, clientLast, bus,
      busLast, object, objLast, members, membersLast, fds, remote,
      proxyLast, published, publishedLast, reply, dispatch, typing,
      extraction, cache, access, validation, forward, marshal, connecting,
      sharing, publication>>

\* The variables the server method callback leaves alone.
notServerVars ==
    <<callbacks, emission, sigLast, error_rules, mapLast, calls, clientLast,
      bus, busLast, object, objLast, members, membersLast, fds, remote,
      proxyLast, published, publishedLast, reply, dispatch, typing,
      extraction, cache, access, validation, forward, marshal, connecting,
      sharing, publication>>

\* The variables the client calls leave alone.
notClientVars ==
    <<callbacks, emission, sigLast, error_rules, mapLast, invocation, bus,
      busLast, object, objLast, members, membersLast, fds, remote,
      proxyLast, published, publishedLast, reply, dispatch, typing,
      extraction, cache, access, validation, forward, marshal, connecting,
      sharing, publication>>

\* The variables the MessageBus operations leave alone.
notBusVars ==
    <<callbacks, emission, sigLast, error_rules, mapLast, invocation, calls,
      clientLast, object, objLast, members, membersLast, fds, remote,
      proxyLast, published, publishedLast, reply, dispatch, typing,
      extraction, cache, access, validation, forward, marshal, connecting,
      sharing, publication>>

\* The variables connect_object and disconnect_object leave alone.
notObjectVars ==
    <<callbacks, emission, sigLast, error_rules, mapLast, invocation, calls,
      clientLast, bus, busLast, members, membersLast, fds, remote,
      proxyLast, published, publishedLast, reply, dispatch, typing,
      extraction, cache, access, validation, forward, marshal, connecting,
      sharing, publication>>

\* The variables the client signal proxies leave alone.
notMembersVars ==
    <<callbacks, emission, sigLast, error_rules, mapLast, invocation, calls,
      clientLast, bus, busLast, object, objLast, fds, remote, proxyLast,
      published, publishedLast, reply, dispatch, typing, extraction, cache,
      access, validation, forward, marshal, connecting, sharing, publication>>

\* The variables the handle swapping leaves alone.
notFdsVars ==
    <<callbacks, emission, sigLast, error_rules, mapLast, invocation, calls,
      clientLast, bus, busLast, object, objLast, members, membersLast,
      remote, proxyLast, published, publishedLast, reply, dispatch, typing,
      extraction, cache, access, validation, forward, marshal, connecting,
      sharing, publication>>

\* The variables the client property proxy leaves alone.
notPropProxyVars ==
    <<callbacks, emission, sigLast, error_rules, mapLast, invocation, calls,
      clientLast, bus, busLast, object, objLast, members, membersLast, fds,
      published, publishedLast, reply, dispatch, typing, extraction, cache,
      access, validation, forward, marshal, connecting, sharing, publication>>

\* The variables the server property handlers leave alone.
notPropServerVars ==
    <<callbacks, emission, sigLast, error_rules, mapLast, invocation, calls,
      clientLast, bus, busLast, object, objLast, members, membersLast, fds,
      remote, proxyLast, reply, dispatch, typing, extraction, cache, access,
      validation, forward, marshal, connecting, sharing, publication>>

\* The variables the marshalling of a reply leaves alone.
notReplyVars ==
    <<callbacks, emission, sigLast, error_rules, mapLast, invocation, calls,
      clientLast, bus, busLast, object, objLast, members, membersLast, fds,
      remote, proxyLast, published, publishedLast, dispatch, typing,
      extraction, cache, access, validation, forward, marshal, connecting,
      sharing, publication>>

\* The variables the dispatch of a call to its handler leaves alone.
notCallVars ==
    <<callbacks, emission, sigLast, error_rules, mapLast, invocation, calls,
      clientLast, bus, busLast, object, objLast, members, membersLast, fds,
      remote, proxyLast, published, publishedLast, reply, typing,
      extraction, cache, access, validation, forward, marshal, connecting,
      sharing, publication>>

\* The variables the type hints leave alone.
notTypesVars ==
    <<callbacks, emission, sigLast, error_rules, mapLast, invocation, calls,
      clientLast, bus, busLast, object, objLast, members, membersLast, fds,
      remote, proxyLast, published, publishedLast, reply, dispatch,
      extraction, cache, access, validation, forward, marshal, connecting,
      sharing, publication>>

\* The variables the extraction of an error message leaves alone.
notMessageVars ==
    <<callbacks, emission, sigLast, error_rules, mapLast, invocation, calls,
      clientLast, bus, busLast, object, objLast, members, membersLast, fds,
      remote, proxyLast, published, publishedLast, reply, dispatch, typing,
      cache, access, validation, forward, marshal, connecting, sharing,
      publication>>

\* The variables the specification cache leaves alone.
notCacheVars ==
    <<callbacks, emission, sigLast, error_rules, mapLast, invocation, calls,
      clientLast, bus, busLast, object, objLast, members, membersLast, fds,
      remote, proxyLast, published, publishedLast, reply, dispatch, typing,
      extraction, access, validation, forward, marshal, connecting, sharing,
      publication>>

\* The variables the service access check leaves alone.
notAccessVars ==
    <<callbacks, emission, sigLast, error_rules, mapLast, invocation, calls,
      clientLast, bus, busLast, object, objLast, members, membersLast, fds,
      remote, proxyLast, published, publishedLast, reply, dispatch, typing,
      extraction, cache, validation, forward, marshal, connecting, sharing,
      publication>>

\* The variables the validation of an incoming call leaves alone.
notValidationVars ==
    <<callbacks, emission, sigLast, error_rules, mapLast, invocation, calls,
      clientLast, bus, busLast, object, objLast, members, membersLast, fds,
      remote, proxyLast, published, publishedLast, reply, dispatch, typing,
      extraction, cache, access, forward, marshal, connecting, sharing,
      publication>>

\* The variables the forwarding of the signals leaves alone.
notForwardVars ==
    <<callbacks, emission, sigLast, error_rules, mapLast, invocation, calls,
      clientLast, bus, busLast, object, objLast, members, membersLast, fds,
      remote, proxyLast, published, publishedLast, reply, dispatch, typing,
      extraction, cache, access, validation, marshal, connecting, sharing,
      publication>>

\* The variables the call of a method proxy leaves alone.
notMarshalVars ==
    <<callbacks, emission, sigLast, error_rules, mapLast, invocation, calls,
      clientLast, bus, busLast, object, objLast, members, membersLast, fds,
      remote, proxyLast, published, publishedLast, reply, dispatch, typing,
      extraction, cache, access, validation, forward, connecting, sharing,
      publication>>

\* The variables the connection of a bus leaves alone.
notConnectingVars ==
    <<callbacks, emission, sigLast, error_rules, mapLast, invocation, calls,
      clientLast, bus, busLast, object, objLast, members, membersLast, fds,
      remote, proxyLast, published, publishedLast, reply, dispatch, typing,
      extraction, cache, access, validation, forward, marshal, sharing,
      publication>>

\* The variables the threads of a client handler leave alone.
notSharingVars ==
    <<callbacks, emission, sigLast, error_rules, mapLast, invocation, calls,
      clientLast, bus, busLast, object, objLast, members, membersLast, fds,
      remote, proxyLast, published, publishedLast, reply, dispatch, typing,
      extraction, cache, access, validation, forward, marshal, connecting,
      publication>>

\* The variables the publication of an object with signals leaves alone.
notPublicationVars ==
    <<callbacks, emission, sigLast, error_rules, mapLast, invocation, calls,
      clientLast, bus, busLast, object, objLast, members, membersLast, fds,
      remote, proxyLast, published, publishedLast, reply, dispatch, typing,
      extraction, cache, access, validation, forward, marshal, connecting,
      sharing>>

vars ==
    <<callbacks, emission, sigLast, error_rules, mapLast, invocation, calls,
      clientLast, bus, busLast, object, objLast, members, membersLast, fds,
      remote, proxyLast, published, publishedLast, reply, dispatch, typing,
      extraction, cache, access, validation, forward, marshal, connecting,
      sharing, publication>>

(***************************************************************************)
(* Generic list helpers (Python list semantics).                           *)
(***************************************************************************)

\* The set of elements of a list.
Elems(s) == {s[i] : i \in 1..Len(s)}

\* How many times x occurs in the list s.
Count(s, x) == Cardinality({i \in 1..Len(s) : s[i] = x})

\* The list s without its i-th element.
RemoveAt(s, i) == [j \in 1..(Len(s) - 1) |-> IF j < i THEN s[j] ELSE s[j + 1]]

\* The list s without every occurrence of x, order kept.
Without(s, x) == SelectSeq(s, LAMBDA y : y # x)

\* Is p a prefix of s?
IsPrefix(p, s) == Len(p) <= Len(s) /\ SubSeq(s, 1, Len(p)) = p

\* list.remove(x): removes the first occurrence, ValueError when there is none.
ListRemove(s, x) ==
    IF x \in Elems(s)
    THEN [list |-> RemoveAt(s, CHOOSE i \in 1..Len(s) :
                        s[i] = x /\ \A j \in 1..(i - 1) : s[j] # x),
          raised |-> "none"]
    ELSE [list |-> s, raised |-> "ValueError"]

(***************************************************************************)
(* Signal (dasbus/signal.py)                                               *)
(***************************************************************************)

\* The callbacks a test connects; the same one may be connected twice.
Callbacks == {"cb1", "cb2"}

\* The argument tuples a signal is emitted with.
EmitArgs == {"args1", "args2"}

\* The longest list of registered callbacks explored.
MaxCallbacks == 3

\* The argument of disconnect() when no callback is given.
None == "None"

\* What the body of a callback may do when it is invoked during emit.
CallbackEffects ==
    {[do |-> "nothing", cb |-> None], [do |-> "raise", cb |-> None],
     [do |-> "disconnect", cb |-> None]}
    \cup {[do |-> d, cb |-> c] : d \in {"connect", "disconnect"}, c \in Callbacks}

\* Signal.connect: append the callback.
SignalConnect(cbs, callback) == Append(cbs, callback)

\* Signal.disconnect without the except clause: ValueError escapes.
SignalDisconnect_NoExcept(cbs, callback) ==
    IF callback = None
    THEN [callbacks |-> <<>>, raised |-> "none"]
    ELSE LET r == ListRemove(cbs, callback)
         IN  [callbacks |-> r.list, raised |-> r.raised]

\* Signal.disconnect where a missing callback falls through to clear().
SignalDisconnect_ClearsOnMiss(cbs, callback) ==
    IF callback = None \/ callback \notin Elems(cbs)
    THEN [callbacks |-> <<>>, raised |-> "none"]
    ELSE [callbacks |-> ListRemove(cbs, callback).list, raised |-> "none"]

\* Signal.disconnect: clear on None, else remove and swallow ValueError.
SignalDisconnect(cbs, callback) ==
    IF callback = None
    THEN [callbacks |-> <<>>, raised |-> "none"]
    ELSE LET r == ListRemove(cbs, callback)
         IN  [callbacks |-> r.list,
              raised |-> IF r.raised = "ValueError" THEN "none" ELSE r.raised]

\* The list Signal.emit iterates over, iterating the live list instead.
EmitIterable_NoCopy(snapshot, live) == live

\* The list Signal.emit iterates over: the copy taken when emit began.
EmitIterable(snapshot, live) == snapshot

\* No emit has run yet.
NoEmission ==
    [status |-> "idle", args |-> None, registered |-> <<>>,
     snapshot |-> <<>>, idx |-> 0, log |-> <<>>]

\* No Signal operation has run yet.
NoSigOp ==
    [op |-> "none", cb |-> None, pre |-> <<>>, raised |-> "none",
     prevOp |-> "none", prevCb |-> None, prevPre |-> <<>>]

\* The record of a Signal operation op(cb) called on the list pre.
SigOp(op, cb, pre, raised) ==
    [op |-> op, cb |-> cb, pre |-> pre, raised |-> raised,
     prevOp |-> sigLast.op, prevCb |-> sigLast.cb, prevPre |-> sigLast.pre]

InitSignal ==
    /\ callbacks = <<>>
    /\ emission = NoEmission
    /\ sigLast = NoSigOp

\* The state the callback list is left in by the body of a callback.
ApplyEffect(cbs, e) ==
    CASE e.do = "connect" -> IF Len(cbs) < MaxCallbacks
                             THEN SignalConnect(cbs, e.cb) ELSE cbs
      [] e.do = "disconnect" -> SignalDisconnect(cbs, e.cb).callbacks
      [] OTHER -> cbs

\* signal.connect(callback), called outside of an emission.
Connect(cb) ==
    /\ emission.status # "running"
    /\ Len(callbacks) < MaxCallbacks
    /\ callbacks' = SignalConnect(callbacks, cb)
    /\ sigLast' = SigOp("connect", cb, callbacks, "none")
    /\ UNCHANGED <<emission, notSigVars>>

\* signal.disconnect(callback) or signal.disconnect(), outside of an emission.
Disconnect(cb) ==
    /\ emission.status # "running"
    /\ LET r == SignalDisconnect(callbacks, cb)
       IN  /\ callbacks' = r.callbacks
           /\ sigLast' = SigOp("disconnect", cb, callbacks, r.raised)
    /\ UNCHANGED <<emission, notSigVars>>

\* signal.emit(args) begins: the list of callbacks is copied.
EmitBegin(args) ==
    /\ emission.status # "running"
    /\ emission' = [status |-> "running", args |-> args,
                    registered |-> callbacks, snapshot |-> callbacks,
                    idx |-> 0, log |-> <<>>]
    /\ sigLast' = SigOp("emit", None, callbacks, "none")
    /\ UNCHANGED <<callbacks, notSigVars>>

\* One iteration of the loop of emit: the next callback is invoked with the
\* arguments of the emission, and its body does e.
EmitCall(e) ==
    /\ emission.status = "running"
    /\ LET it == EmitIterable(emission.snapshot, callbacks)
       IN  /\ emission.idx < Len(it)
           /\ emission' = [emission EXCEPT
                  !.idx = @ + 1,
                  !.log = Append(@, <<it[emission.idx + 1], emission.args>>),
                  !.status = IF e.do = "raise" THEN "raised" ELSE @]
    /\ callbacks' = ApplyEffect(callbacks, e)
    /\ sigLast' = [sigLast EXCEPT
                      !.raised = IF e.do = "raise" THEN "callback" ELSE @]
    /\ UNCHANGED notSigVars

\* The loop of emit is exhausted: emit returns.
EmitEnd ==
    /\ emission.status = "running"
    /\ emission.idx >= Len(EmitIterable(emission.snapshot, callbacks))
    /\ emission' = [emission EXCEPT !.status = "done"]
    /\ UNCHANGED <<callbacks, sigLast, notSigVars>>

NextSignal ==
    \/ \E cb \in Callbacks : Connect(cb)
    \/ \E cb \in Callbacks \cup {None} : Disconnect(cb)
    \/ \E a \in EmitArgs : EmitBegin(a)
    \/ \E e \in CallbackEffects : EmitCall(e)
    \/ EmitEnd

(***************************************************************************)
(* ErrorMapper (dasbus/error.py)                                           *)
(***************************************************************************)

\* A Python string, written as the sequence of its characters.
S_DBusError == <<"D", "B", "u", "s", "E", "r", "r", "o", "r">>
S_ExceptionA == <<"E", "x", "c", "e", "p", "t", "i", "o", "n", "A">>
S_ExceptionB == <<"E", "x", "c", "e", "p", "t", "i", "o", "n", "B">>
S_ExceptionC == <<"E", "x", "c", "e", "p", "t", "i", "o", "n", "C">>
S_TypeError == <<"T", "y", "p", "e", "E", "r", "r", "o", "r">>
S_AttributeError ==
    <<"A", "t", "t", "r", "i", "b", "u", "t", "e", "E", "r", "r", "o", "r">>
S_OverflowError ==
    <<"O", "v", "e", "r", "f", "l", "o", "w", "E", "r", "r", "o", "r">>
S_DBusSpecificationError ==
    <<"D", "B", "u", "s", "S", "p", "e", "c", "i", "f", "i", "c", "a", "t",
      "i", "o", "n", "E", "r", "r", "o", "r">>
S_not == <<"n", "o", "t">>
S_known == <<"k", "n", "o", "w", "n">>
S_Error == <<"E", "r", "r", "o", "r">>

\* The DBus error names the rules and the lookups use: "my.A", "my.B", "my.C".
NameA == <<"m", "y", ".", "A">>
NameB == <<"m", "y", ".", "B">>
NameC == <<"m", "y", ".", "C">>

\* The exception classes of the model, each named by its class object.
ExceptionTypes ==
    {"DBusError", "ExceptionA", "ExceptionB", "ExceptionC", "TypeError",
     "AttributeError", "OverflowError", "DBusSpecificationError"}

\* exception_type.__name__
ClassName(t) ==
    CASE t = "DBusError" -> S_DBusError
      [] t = "ExceptionA" -> S_ExceptionA
      [] t = "ExceptionB" -> S_ExceptionB
      [] t = "ExceptionC" -> S_ExceptionC
      [] t = "TypeError" -> S_TypeError
      [] t = "AttributeError" -> S_AttributeError
      [] t = "OverflowError" -> S_OverflowError
      [] t = "DBusSpecificationError" -> S_DBusSpecificationError

\* The exception types and error names that add_rule(ErrorRule(..)) is given.
RuleTypes == {"ExceptionA", "ExceptionB"}
RuleNames == {NameA, NameB}

\* The exception types and error names that are looked up.
LookupTypes == {"ExceptionA", "ExceptionB", "ExceptionC", "TypeError"}
LookupNames == {NameA, NameB, NameC}

\* The most ErrorRule instances added on top of the default rule.
MaxRules == 3

\* get_dbus_name(*parts): the parts joined by dots.
RECURSIVE get_dbus_name(_)
get_dbus_name(parts) ==
    IF parts = <<>> THEN <<>>
    ELSE IF Len(parts) = 1 THEN parts[1]
    ELSE parts[1] \o <<".">> \o get_dbus_name(Tail(parts))

\* ErrorRule(exception_type, error_name)
ErrorRule(exception_type, error_name) ==
    [kind |-> "ErrorRule", type |-> exception_type, name |-> error_name]

\* DefaultErrorRule(default_type, default_namespace)
DefaultErrorRule(default_type, default_namespace) ==
    [kind |-> "DefaultErrorRule", type |-> default_type,
     name |-> default_namespace]

\* rule.match_type(exception_type)
match_type(rule, exception_type) ==
    IF rule.kind = "ErrorRule" THEN rule.type = exception_type ELSE TRUE

\* rule.get_name(exception_type)
get_name(rule, exception_type) ==
    IF rule.kind = "ErrorRule" THEN rule.name
    ELSE get_dbus_name(Append(rule.name, ClassName(exception_type)))

\* rule.match_name(error_name)
match_name(rule, error_name) ==
    IF rule.kind = "ErrorRule" THEN rule.name = error_name ELSE TRUE

\* rule.get_type(error_name)
get_type(rule, error_name) == rule.type

\* ErrorMapper.add_rule: the rule is appended.
add_rule(rules, rule) == Append(rules, rule)

\* ErrorMapper.reset_rules that forgets to add the default rule.
reset_rules_NoDefault == <<>>

\* ErrorMapper.reset_rules: the list is cleared and the default rule added.
reset_rules ==
    add_rule(<<>>, DefaultErrorRule("DBusError", <<S_not, S_known, S_Error>>))

\* The scan of get_error_name from rule i downwards.
RECURSIVE ScanByType(_, _, _)
ScanByType(rules, i, exception_type) ==
    IF i = 0 THEN [raised |-> "LookupError", value |-> <<>>]
    ELSE IF match_type(rules[i], exception_type)
         THEN [raised |-> "none", value |-> get_name(rules[i], exception_type)]
         ELSE ScanByType(rules, i - 1, exception_type)

\* The scan of get_exception_type from rule i downwards.
RECURSIVE ScanByName(_, _, _)
ScanByName(rules, i, error_name) ==
    IF i = 0 THEN [raised |-> "LookupError", value |-> None]
    ELSE IF match_name(rules[i], error_name)
         THEN [raised |-> "none", value |-> get_type(rules[i], error_name)]
         ELSE ScanByName(rules, i - 1, error_name)

\* The scan of get_error_name from rule i upwards (the list is not reversed).
RECURSIVE ScanByTypeForward(_, _, _)
ScanByTypeForward(rules, i, exception_type) ==
    IF i > Len(rules) THEN [raised |-> "LookupError", value |-> <<>>]
    ELSE IF match_type(rules[i], exception_type)
         THEN [raised |-> "none", value |-> get_name(rules[i], exception_type)]
         ELSE ScanByTypeForward(rules, i + 1, exception_type)

\* ErrorMapper.get_error_name scanning the rules oldest first.
get_error_name_Forward(rules, exception_type) ==
    ScanByTypeForward(rules, 1, exception_type)

\* ErrorMapper.get_error_name: the first match of the reversed list.
get_error_name(rules, exception_type) ==
    ScanByType(rules, Len(rules), exception_type)

\* ErrorMapper.get_exception_type: the first match of the reversed list.
get_exception_type(rules, error_name) ==
    ScanByName(rules, Len(rules), error_name)

\* No ErrorMapper operation has run yet.
NoMapOp ==
    [op |-> "none", type |-> None, name |-> <<>>, raised |-> "none",
     prevOp |-> "none", prevType |-> None, prevName |-> <<>>]

\* The record of an ErrorMapper operation.
MapOp(op, type, name, raised) ==
    [op |-> op, type |-> type, name |-> name, raised |-> raised,
     prevOp |-> mapLast.op, prevType |-> mapLast.type,
     prevName |-> mapLast.name]

\* ErrorMapper(): the list is created and reset.
InitMapper ==
    /\ error_rules = reset_rules
    /\ mapLast = NoMapOp

\* error_mapper.add_rule(ErrorRule(t, n))
AddRule(t, n) ==
    /\ Len(error_rules) <= MaxRules
    /\ error_rules' = add_rule(error_rules, ErrorRule(t, n))
    /\ mapLast' = MapOp("add_rule", t, n, "none")
    /\ UNCHANGED notMapVars

\* error_mapper.reset_rules()
ResetRules ==
    /\ error_rules' = reset_rules
    /\ mapLast' = MapOp("reset_rules", None, <<>>, "none")
    /\ UNCHANGED notMapVars

\* error_mapper.get_error_name(t)
LookupName(t) ==
    /\ LET r == get_error_name(error_rules, t)
       IN  mapLast' = MapOp("get_error_name", t, r.value, r.raised)
    /\ UNCHANGED <<error_rules, notMapVars>>

\* error_mapper.get_exception_type(n)
LookupType(n) ==
    /\ LET r == get_exception_type(error_rules, n)
       IN  mapLast' = MapOp("get_exception_type", r.value, n, r.raised)
    /\ UNCHANGED <<error_rules, notMapVars>>

NextMapper ==
    \/ \E t \in RuleTypes, n \in RuleNames : AddRule(t, n)
    \/ ResetRules
    \/ \E t \in LookupTypes : LookupName(t)
    \/ \E n \in LookupNames : LookupType(n)

(***************************************************************************)
(* ServerObjectHandler and GLibServer (dasbus/server/handler.py)           *)
(***************************************************************************)

\* The members of the published object's specification with their output
\* signature: no value, one value, two values.  "Unhandled" is specified but
\* the object has no attribute of that name.
ServerOutType ==
    [Method1 |-> None, Method3 |-> "(i)", Method5 |-> "(ib)",
     Unhandled |-> None]

ServerMembers == DOMAIN ServerOutType

\* The members an incoming call may name; "MethodInvalid" is not specified.
CallMembers == ServerMembers \cup {"MethodInvalid"}

\* The attributes of the published object.
ObjectAttributes == {"Method1", "Method3", "Method5"}

\* The parameters of an incoming call: an empty tuple variant, or no variant.
CallParameters == {"()", None}

\* The exception classes that derive from BaseException and not from
\* Exception, and the test "isinstance(error, Exception)" of an except clause.
BaseExceptionOnly == {"SystemExit"}
IsException(error_type) == error_type \notin BaseExceptionOnly

\* What the object's method does when it is called: it returns a value
\* (nothing, an integer, a pair, an integer out of range) or raises.
HandlerBehaviours ==
    {[do |-> "return", value |-> v, type |-> None] :
        v \in {None, "int", "pair", "overflow"}}
    \cup {[do |-> "raise", value |-> None, type |-> t] :
        t \in {"ExceptionA", "ExceptionC", "SystemExit"}}

\* The incoming calls.
IncomingCalls ==
    [member : CallMembers, parameters : CallParameters,
     behaviour : HandlerBehaviours]

\* A step that ended normally with a value, and one that raised.
Returned(v) == [raised |-> "none", value |-> v]
Raised(t) == [raised |-> t, value |-> None]

\* GLibServer.get_call_info and _get_additional_arguments.
get_additional_arguments(call) == Returned([call_info |-> "sender"])

\* _find_member_spec: specification.get_member raises for an unknown member.
find_member_spec(member) ==
    IF member \in ServerMembers
    THEN Returned([name |-> member, out_type |-> ServerOutType[member]])
    ELSE Raised("DBusSpecificationError")

\* unwrap_variant(parameters): None has no get_type_string.
unwrap_variant(parameters) ==
    IF parameters = None THEN Raised("AttributeError") ELSE Returned(<<>>)

\* _find_handler: the object's attribute; the calls of the model name no
\* member of org.freedesktop.DBus.Properties, so there is no default handler.
find_handler(member) ==
    IF member \in ObjectAttributes THEN Returned(member)
    ELSE Raised("AttributeError")

\* _handle_call: find the handler, then call it.
handle_call(call) ==
    LET handler == find_handler(call.member)
    IN  IF handler.raised # "none" THEN handler
        ELSE IF call.behaviour.do = "raise" THEN Raised(call.behaviour.type)
        ELSE Returned(call.behaviour.value)

\* is_tuple_of_one(out_type)
is_tuple_of_one(out_type) == out_type = "(i)"

\* The Python tuple (v,) of one item.
Tuple1(v) == "(" \o v \o ",)"

\* get_variant(type_hint, value): None is refused, and GLib refuses a value
\* that does not fit the type.
get_variant(type_hint, value) ==
    IF value = None THEN Raised("TypeError")
    ELSE IF type_hint = "(i)" /\ value = Tuple1("int")
         THEN Returned([type |-> type_hint, value |-> value])
    ELSE IF type_hint = "(i)" /\ value = Tuple1("overflow")
         THEN Raised("OverflowError")
    ELSE IF type_hint = "(ib)" /\ value = "pair"
         THEN Returned([type |-> type_hint, value |-> value])
    ELSE Raised("TypeError")

\* GLibServer._get_reply_value
get_reply_value(out_type, out_value) ==
    IF out_type = None THEN Returned(None)
    ELSE get_variant(out_type,
            IF is_tuple_of_one(out_type) THEN Tuple1(out_value) ELSE out_value)

\* GLibServer.set_call_reply: the effects on the invocation, or an exception.
set_call_reply(out_type, out_value) ==
    LET reply_value == get_reply_value(out_type, out_value)
    IN  IF reply_value.raised # "none" THEN reply_value
        ELSE Returned(<<[do |-> "return_value", value |-> reply_value.value]>>)

\* An error handler that sends the error reply before it writes the log.
handle_method_error_ReplyFirst(rules, error_type) ==
    LET error_name == get_error_name(rules, error_type)
    IN  IF error_name.raised # "none"
        THEN [raised |-> error_name.raised, value |-> <<>>]
        ELSE Returned(<<[do |-> "return_dbus_error",
                         value |-> [name |-> error_name.value,
                                    message |-> <<"str", error_type>>]],
                        [do |-> "log.warning", value |-> error_type]>>)

\* _handle_method_error: log, map the type of the error, send the error.  A
\* LookupError of the mapper escapes before anything is sent.
handle_method_error(rules, error_type) ==
    LET error_name == get_error_name(rules, error_type)
    IN  IF error_name.raised # "none"
        THEN [raised |-> error_name.raised,
              value |-> <<[do |-> "log.warning", value |-> error_type]>>]
        ELSE Returned(<<[do |-> "log.warning", value |-> error_type],
                        [do |-> "return_dbus_error",
                         value |-> [name |-> error_name.value,
                                    message |-> <<"str", error_type>>]]>>)

\* The body of the try statement of _method_callback.
method_callback_try(call) ==
    LET additional_args == get_additional_arguments(call)
        member == find_member_spec(call.member)
        parameters == unwrap_variant(call.parameters)
        result == handle_call(call)
    IN  IF member.raised # "none" THEN member
        ELSE IF parameters.raised # "none" THEN parameters
        ELSE IF result.raised # "none" THEN result
        ELSE set_call_reply(member.value.out_type, result.value)

\* _method_callback with no except clause: the exception escapes.
method_callback_NoExcept(rules, call) ==
    LET body == method_callback_try(call)
    IN  IF body.raised = "none" THEN body
        ELSE [raised |-> body.raised, value |-> <<>>]

\* _method_callback: what is done to the invocation, and what escapes.  The
\* clause "except Exception" handles the instances of Exception only.
method_callback(rules, call) ==
    LET body == method_callback_try(call)
    IN  IF body.raised = "none" THEN body
        ELSE IF IsException(body.raised)
             THEN handle_method_error(rules, body.raised)
        ELSE [raised |-> body.raised, value |-> <<>>]

\* No call has come in yet.
NoInvocation ==
    [called |-> FALSE,
     call |-> [member |-> None, parameters |-> None,
               behaviour |-> [do |-> None, value |-> None, type |-> None]],
     effects |-> <<>>, escaped |-> "none"]

InitServer == invocation = NoInvocation

\* GLibServer._object_callback: a call comes in on a fresh invocation.
MethodCall(call) ==
    /\ LET r == method_callback(error_rules, call)
       IN  invocation' = [called |-> TRUE, call |-> call,
                          effects |-> r.value, escaped |-> r.raised]
    /\ UNCHANGED notServerVars

\* The server handler with its error mapper in any state.
NextServer ==
    \/ \E t \in RuleTypes, n \in RuleNames : AddRule(t, n)
    \/ ResetRules
    \/ \E call \in IncomingCalls : MethodCall(call)

(***************************************************************************)
(* ClientObjectHandler and GLibClient (dasbus/client/handler.py)           *)
(***************************************************************************)

\* Strings of the client side.
S_GDBusError ==
    <<"G", "D", "B", "u", "s", ".", "E", "r", "r", "o", "r">>
S_Failed == <<"F", "a", "i", "l", "e", "d", "!">>
S_Timeout == <<"T", "i", "m", "e", "o", "u", "t">>

\* The prefix GDBus puts before the message of the remote error named name.
GDBusPrefix(name) == S_GDBusError \o <<":">> \o name \o <<":", " ">>

\* The GLib.Error of a reply that carries the error name and the message text.
RemoteError(name, text) ==
    [cls |-> "GLib.Error", remote |-> TRUE, name |-> name,
     message |-> GDBusPrefix(name) \o text, dbus_name |-> <<>>,
     origin |-> "transport"]

\* The GLib.Error of a call that timed out: not a remote error.
TimeoutError ==
    [cls |-> "GLib.Error", remote |-> FALSE, name |-> <<>>,
     message |-> S_Timeout, dbus_name |-> <<>>, origin |-> "transport"]

\* An exception of another class raised by the client library.
LocalError ==
    [cls |-> "ExceptionC", remote |-> FALSE, name |-> <<>>,
     message |-> S_Failed, dbus_name |-> <<>>, origin |-> "transport"]

\* No exception.
NoError ==
    [cls |-> None, remote |-> FALSE, name |-> <<>>, message |-> <<>>,
     dbus_name |-> <<>>, origin |-> None]

\* The messages a remote error carries; the second one starts like a prefix.
RemoteTexts == {S_Failed, GDBusPrefix(NameA) \o S_Failed}

\* The reply of the method Hello(name): one string.
HelloReply(name) == <<"Hello, " \o name \o "!">>

\* The ways a call with the parameter p can end: a reply of one value, of no
\* value or of two, a remote error, a timeout, another local exception.
Outcomes(p) ==
    {[error |-> NoError, values |-> v] :
        v \in {HelloReply(p), <<>>, <<"Hello", p>>}}
    \cup {[error |-> RemoteError(n, t), values |-> <<>>] :
            n \in {NameA, NameC}, t \in RemoteTexts}
    \cup {[error |-> e, values |-> <<>>] : e \in {TimeoutError, LocalError}}

\* The ways an asynchronous call of the model ends.
AsyncOutcomes(p) ==
    {[error |-> NoError, values |-> HelloReply(p)],
     [error |-> RemoteError(NameA, S_Failed), values |-> <<>>],
     [error |-> RemoteError(NameC, GDBusPrefix(NameA) \o S_Failed),
      values |-> <<>>],
     [error |-> TimeoutError, values |-> <<>>]}

\* The calls of the method proxy Hello: its parameter, and the callback with
\* its arguments of an asynchronous call.  The last one passes no parameter.
ProxyCalls ==
    {[parameters |-> <<"Foo">>, callback |-> "callback1", callback_args |-> <<1>>],
     [parameters |-> <<"Foo">>, callback |-> "callback1", callback_args |-> <<2>>],
     [parameters |-> <<"Bar">>, callback |-> "callback2", callback_args |-> <<>>],
     [parameters |-> <<>>, callback |-> "callback1", callback_args |-> <<3>>]}

\* The most asynchronous calls issued.
MaxCalls == 2

\* The error mappers a client handler is created with.
ClientMappers ==
    {reset_rules,
     add_rule(reset_rules, ErrorRule("ExceptionA", NameA)),
     add_rule(reset_rules, ErrorRule("ExceptionB", NameC)),
     add_rule(add_rule(reset_rules, ErrorRule("ExceptionA", NameA)),
              ErrorRule("ExceptionB", NameA)),
     add_rule(add_rule(reset_rules, ErrorRule("ExceptionA", NameC)),
              ErrorRule("ExceptionB", NameB))}

\* A call that returned the Python value v, and one that raised e.
Result(kind, v) == [error |-> NoError, py |-> kind, v |-> v, lookups |-> 0]
Failure(e, n) == [error |-> e, py |-> "None", v |-> <<>>, lookups |-> n]

\* GLibClient.is_remote_error
is_remote_error(error) == error.cls = "GLib.Error" /\ error.remote

\* GLibClient.get_remote_error_name
get_remote_error_name(error) == error.name

\* An extraction that takes any error name in the prefix for this error's.
get_remote_error_message_AnyName(error) ==
    LET message == error.message
        start == S_GDBusError \o <<":">>
        ends == {i \in 1..Len(message) - 1 :
                    /\ i > Len(start)
                    /\ message[i] = ":" /\ message[i + 1] = " "}
        end == CHOOSE i \in ends : \A j \in ends : i <= j
    IN  IF IsPrefix(start, message) /\ ends # {}
        THEN SubSeq(message, end + 2, Len(message))
        ELSE message

\* GLibClient.get_remote_error_message: the message without the prefix of
\* this error's name, when it starts with it.
get_remote_error_message(error) ==
    LET name == get_remote_error_name(error)
        message == error.message
        prefix == S_GDBusError \o <<":">> \o name \o <<":", " ">>
    IN  IF IsPrefix(prefix, message)
        THEN SubSeq(message, Len(prefix) + 1, Len(message))
        ELSE message

\* _handle_method_error that raises every error again as it is.
client_handle_method_error_Reraises(rules, error) == Failure(error, 0)

\* _handle_method_error that maps every error, remote or not.
client_handle_method_error_MapsAll(rules, error) ==
    LET name == get_remote_error_name(error)
        cls == get_exception_type(rules, name)
    IN  Failure([cls |-> cls.value, remote |-> FALSE, name |-> <<>>,
                 message |-> get_remote_error_message(error),
                 dbus_name |-> name, origin |-> "handler"], 1)

\* _handle_method_error: a non-remote error is raised again; a remote one is
\* raised as a new exception of the mapped class.
client_handle_method_error(rules, error) ==
    IF ~is_remote_error(error) THEN Failure(error, 0)
    ELSE LET name == get_remote_error_name(error)
             cls == get_exception_type(rules, name)
             message == get_remote_error_message(error)
         IN  IF cls.raised # "none"
             THEN Failure([NoError EXCEPT !.cls = cls.raised,
                                          !.origin = "mapper"], 1)
             ELSE Failure([cls |-> cls.value, remote |-> FALSE,
                           name |-> <<>>, message |-> message,
                           dbus_name |-> name, origin |-> "handler"], 1)

\* _handle_method_result: None, the one value, or the tuple of values.
client_handle_method_result(values) ==
    IF values = <<>> THEN Result("None", <<>>)
    ELSE IF Len(values) = 1 THEN Result("value", <<values[1]>>)
    ELSE Result("tuple", values)

\* _get_method_reply: the call is made; its result or its error is handled.
get_method_reply(rules, outcome) ==
    IF outcome.error = NoError
    THEN client_handle_method_result(outcome.values)
    ELSE client_handle_method_error(rules, outcome.error)

\* The variant of the parameters in _call_method: the method Hello declares
\* the input signature "(s)", and get_variant refuses None.
call_parameters(parameters) ==
    IF parameters = <<>> THEN Raised("TypeError")
    ELSE Returned([type |-> "(s)", value |-> parameters])

\* GLibClient.async_call: what connection.call keeps for the completion.
async_call(callback, callback_args) ==
    [callback |-> "GLibClient._async_call_finish",
     user_data |-> [callback |-> callback, callback_args |-> callback_args]]

\* The asynchronous branch of _call_method.
call_method_async(callback, callback_args) ==
    async_call("ClientObjectHandler._method_callback",
               [callback |-> callback, callback_args |-> callback_args])

\* The result object of the call c that ended in outcome, and what
\* connection.call_finish makes of a result object.
ResultObject(c, outcome) == [call |-> c, outcome |-> outcome]
call_finish(result_object) == result_object.outcome

\* The getter GLibClient._async_call_finish builds for a result object, and
\* the one ClientObjectHandler._method_callback wraps around it.
CallFinish(result_object) == [finish |-> result_object, reply |-> FALSE]
ReplyGetter(getter) == [getter EXCEPT !.reply = TRUE]

\* What calling a getter gives: the handled reply, or the raw outcome.
InvokeReplyGetter(rules, getter) ==
    IF getter.reply
    THEN get_method_reply(rules, call_finish(getter.finish))
    ELSE [error |-> call_finish(getter.finish).error, py |-> "raw",
          v |-> call_finish(getter.finish).values, lookups |-> 0]

\* GLibClient._async_call_finish handing over the getter of the result of
\* the call issued last.
async_call_finish_LastResult(result_object, user_data) ==
    [callback |-> user_data.callback,
     getter |-> CallFinish(ResultObject(Len(calls),
                                        calls[Len(calls)].outcome)),
     args |-> user_data.callback_args, raised |-> NoError]

\* GLibClient._async_call_finish: the callback of the user data is called
\* with a getter and the callback arguments.
async_call_finish(result_object, user_data) ==
    [callback |-> user_data.callback, getter |-> CallFinish(result_object),
     args |-> user_data.callback_args, raised |-> NoError]

\* ClientObjectHandler._method_callback that fetches the reply at once.
client_method_callback_Eager(getter, callback, callback_args) ==
    [callback |-> callback, getter |-> ReplyGetter(getter),
     args |-> callback_args,
     raised |-> InvokeReplyGetter(error_rules, ReplyGetter(getter)).error]

\* ClientObjectHandler._method_callback: the callback of the user is called
\* with a getter of the handled reply and the callback arguments.
client_method_callback(getter, callback, callback_args) ==
    [callback |-> callback, getter |-> ReplyGetter(getter),
     args |-> callback_args, raised |-> NoError]

\* The call the connection makes when a call ends: the callback it kept is
\* _async_call_finish, whose user data name _method_callback.
Completion(result_object, kept) ==
    LET finish == async_call_finish(result_object, kept.user_data)
    IN  client_method_callback(finish.getter, finish.args.callback,
                               finish.args.callback_args)

\* No getter was invoked, and no outcome is known.
NoReply == [error |-> NoError, py |-> "unset", v |-> <<>>, lookups |-> 0]
NoOutcome == [error |-> NoError, values |-> <<"unset">>]

\* No method proxy was called yet.
NoClientOp ==
    [op |-> "none", raised |-> "none", sent |-> FALSE,
     call |-> [parameters |-> <<>>, callback |-> None, callback_args |-> <<>>],
     outcome |-> NoOutcome, reply |-> NoReply]

InitClient ==
    /\ calls = <<>>
    /\ clientLast = NoClientOp

\* proxy.Hello(*parameters): a synchronous call, which blocks until the call
\* has ended in outcome.
SyncCall(pc, outcome) ==
    /\ LET parameters == call_parameters(pc.parameters)
       IN  clientLast' =
             IF parameters.raised # "none"
             THEN [op |-> "sync", call |-> pc, raised |-> parameters.raised,
                   sent |-> FALSE, outcome |-> NoOutcome, reply |-> NoReply]
             ELSE [op |-> "sync", call |-> pc, raised |-> "none", sent |-> TRUE,
                   outcome |-> outcome,
                   reply |-> get_method_reply(error_rules, outcome)]
    /\ UNCHANGED <<calls, notClientVars>>

\* proxy.Hello(*parameters, callback=.., callback_args=..): the call is
\* handed to the connection and _call_method returns.
AsyncCall(pc) ==
    /\ Len(calls) < MaxCalls
    /\ LET parameters == call_parameters(pc.parameters)
       IN  IF parameters.raised # "none"
           THEN /\ clientLast' = [op |-> "async", call |-> pc, raised |-> parameters.raised,
                                  sent |-> FALSE, outcome |-> NoOutcome,
                                  reply |-> NoReply]
                /\ UNCHANGED calls
           ELSE /\ clientLast' = [op |-> "async", call |-> pc, raised |-> "none",
                                  sent |-> TRUE, outcome |-> NoOutcome,
                                  reply |-> NoReply]
                /\ calls' = Append(calls,
                      [supplied |-> pc, state |-> "pending",
                       kept |-> call_method_async(pc.callback,
                                                  pc.callback_args),
                       outcome |-> NoOutcome, delivered |-> <<>>,
                       got |-> NoReply])
    /\ UNCHANGED notClientVars

\* The call c ends in outcome: the connection calls what it kept for it.
Complete(c, outcome) ==
    /\ c \in 1..Len(calls)
    /\ calls[c].state = "pending"
    /\ outcome \in AsyncOutcomes(calls[c].supplied.parameters[1])
    /\ calls' = [calls EXCEPT
          ![c].state = "delivered",
          ![c].outcome = outcome,
          ![c].delivered = Append(@,
               Completion(ResultObject(c, outcome), calls[c].kept))]
    /\ UNCHANGED <<clientLast, notClientVars>>

\* The user calls the getter that was delivered for the call c.
InvokeGetter(c) ==
    /\ c \in 1..Len(calls)
    /\ calls[c].state = "delivered"
    /\ calls' = [calls EXCEPT
          ![c].state = "got",
          ![c].got = InvokeReplyGetter(error_rules,
                                       calls[c].delivered[1].getter)]
    /\ UNCHANGED <<clientLast, notClientVars>>

\* Every outcome of a call of the model.
AllAsyncOutcomes == UNION {AsyncOutcomes(p) : p \in {"Foo", "Bar"}}

\* Synchronous calls of a handler.
NextClientSync ==
    \/ \E pc \in ProxyCalls :
          \E outcome \in (IF pc.parameters = <<>> THEN {NoOutcome}
                          ELSE Outcomes(pc.parameters[1])) :
             SyncCall(pc, outcome)

\* Asynchronous calls in flight on one handler, completing in any order.
NextClientAsync ==
    \/ \E pc \in ProxyCalls : AsyncCall(pc)
    \/ \E c \in 1..MaxCalls, outcome \in AllAsyncOutcomes : Complete(c, outcome)
    \/ \E c \in 1..MaxCalls : InvokeGetter(c)

(***************************************************************************)
(* MessageBus (dasbus/connection.py)                                       *)
(***************************************************************************)

\* The service names and the object paths of the model, and the interfaces
\* of the objects that are published.
ServiceNames == {"my.service.1", "my.service.2"}
ObjectPaths == {"/my/object/1", "/my/object/2"}
ObjectInterfaces == {"my.Interface.A", "my.Interface.B"}
RegistrationKeys == ServiceNames \cup ObjectPaths

\* The replies of the RequestName method of the bus.
RequestNameReplies == {"PRIMARY_OWNER", "IN_QUEUE", "EXISTS", "ALREADY_OWNER"}

\* The most registrations the calls of a behaviour make.
MaxRegistrations == 3

\* The callbacks kept in MessageBus._registrations: the disconnect_object of
\* the handler made by the id-th successful call, or the lambda that calls
\* ReleaseName(name) made by the id-th successful call.
DisconnectObjectCallback(id, object_path) ==
    [kind |-> "disconnect_object", id |-> id, key |-> object_path]
ReleaseNameCallback(id, service_name) ==
    [kind |-> "ReleaseName", id |-> id, key |-> service_name]

\* Python dict: the position of a key, or 0.
DictIndex(d, key) ==
    IF \E i \in 1..Len(d) : d[i].key = key
    THEN CHOOSE i \in 1..Len(d) : d[i].key = key
    ELSE 0

\* Python dict: d[key] = value keeps the position of a key that is present
\* and puts a new key last.
DictSet(d, key, value) ==
    IF DictIndex(d, key) = 0 THEN Append(d, [key |-> key, value |-> value])
    ELSE [d EXCEPT ![DictIndex(d, key)].value = value]

\* Python dict: the dict without the key.
DictPop(d, key) == RemoveAt(d, DictIndex(d, key))

\* Calling a callback of the table: the handler unregisters its object from
\* the connection, or the bus releases the name; the call is recorded.
InvokeRegistration(b, callback) ==
    [b EXCEPT
        !.log = Append(@, callback),
        !.exported = IF callback.kind = "disconnect_object"
                     THEN {e \in @ : e.handler # callback.id} ELSE @,
        !.owned = IF callback.kind = "ReleaseName"
                  THEN @ \ {callback.key} ELSE @]

\* A registration that records the name before it looks at the reply.
register_service_RecordsFirst(b, service_name, result) ==
    LET recorded ==
            [b EXCEPT
                !.connection = TRUE,
                !.requested_names = @ \cup {service_name},
                !.registrations = DictSet(@, service_name,
                    ReleaseNameCallback(Len(b.made) + 1, service_name)),
                !.made = Append(@,
                    ReleaseNameCallback(Len(b.made) + 1, service_name))]
    IN  IF result # "PRIMARY_OWNER"
        THEN [raised |-> "ConnectionError", value |-> recorded]
        ELSE Returned([recorded EXCEPT !.owned = @ \cup {service_name}])

\* MessageBus.register_service after RequestName replied.
register_service(b, service_name, result) ==
    IF result # "PRIMARY_OWNER"
    THEN [raised |-> "ConnectionError",
          value |-> [b EXCEPT !.connection = TRUE]]
    ELSE Returned(
        [b EXCEPT
            !.connection = TRUE,
            !.owned = @ \cup {service_name},
            !.requested_names = @ \cup {service_name},
            !.registrations = DictSet(@, service_name,
                ReleaseNameCallback(Len(b.made) + 1, service_name)),
            !.made = Append(@,
                ReleaseNameCallback(Len(b.made) + 1, service_name))])

\* MessageBus.publish_object: the handler connects the object (the connection
\* refuses an interface that is already registered at the path), then its
\* disconnect_object is stored under the path.
publish_object(b, object_path, interface) ==
    IF \E e \in b.exported : e.path = object_path /\ e.interface = interface
    THEN [raised |-> "GLib.Error", value |-> [b EXCEPT !.connection = TRUE]]
    ELSE Returned(
        [b EXCEPT
            !.connection = TRUE,
            !.exported = @ \cup {[path |-> object_path,
                                  interface |-> interface,
                                  handler |-> Len(b.made) + 1]},
            !.registrations = DictSet(@, object_path,
                DisconnectObjectCallback(Len(b.made) + 1, object_path)),
            !.made = Append(@,
                DisconnectObjectCallback(Len(b.made) + 1, object_path))])

\* _unregister that calls the callback of the key and keeps it in the table.
bus_unregister_KeepsCallback(b, key) ==
    IF DictIndex(b.registrations, key) = 0 THEN b
    ELSE InvokeRegistration(b,
            b.registrations[DictIndex(b.registrations, key)].value)

\* MessageBus._unregister: pop the callback of the key and call it.
bus_unregister(b, key) ==
    IF DictIndex(b.registrations, key) = 0 THEN b
    ELSE InvokeRegistration(
            [b EXCEPT !.registrations = DictPop(@, key)],
            b.registrations[DictIndex(b.registrations, key)].value)

\* The loop of MessageBus.disconnect: popitem takes the last item.
RECURSIVE bus_release_all(_)
bus_release_all(b) ==
    IF b.registrations = <<>> THEN b
    ELSE bus_release_all(InvokeRegistration(
            [b EXCEPT !.registrations = SubSeq(@, 1, Len(@) - 1)],
            b.registrations[Len(b.registrations)].value))

\* MessageBus.disconnect
bus_disconnect(b) ==
    [bus_release_all(b) EXCEPT !.connection = FALSE,
                               !.requested_names = {}]

\* MessageBus.__init__, on a bus where it owns no name and no object.
NewMessageBus ==
    [connection |-> FALSE, registrations |-> <<>>, requested_names |-> {},
     made |-> <<>>, log |-> <<>>, exported |-> {}, owned |-> {}]

NoBusOp ==
    [op |-> "none", key |-> "", raised |-> "none", prevOp |-> "none",
     logLen |-> 0]

BusOp(op, key, raised) ==
    [op |-> op, key |-> key, raised |-> raised, prevOp |-> busLast.op,
     logLen |-> Len(bus.log)]

InitBus ==
    /\ bus = NewMessageBus
    /\ busLast = NoBusOp

\* register_service(service_name); the bus answers ALREADY_OWNER exactly when
\* the connection owns the name.
RegisterService(service_name, result) ==
    /\ Len(bus.made) < MaxRegistrations
    /\ (result = "ALREADY_OWNER") <=> (service_name \in bus.owned)
    /\ LET r == register_service(bus, service_name, result)
       IN  /\ bus' = r.value
           /\ busLast' = BusOp("register_service", service_name, r.raised)
    /\ UNCHANGED notBusVars

\* publish_object(object_path, obj) for an object with one interface.
PublishObject(object_path, interface) ==
    /\ Len(bus.made) < MaxRegistrations
    /\ LET r == publish_object(bus, object_path, interface)
       IN  /\ bus' = r.value
           /\ busLast' = BusOp("publish_object", object_path, r.raised)
    /\ UNCHANGED notBusVars

\* unpublish_object(object_path)
UnpublishObject(object_path) ==
    /\ bus' = bus_unregister(bus, object_path)
    /\ busLast' = BusOp("unpublish_object", object_path, "none")
    /\ UNCHANGED notBusVars

\* unregister_service(service_name)
UnregisterService(service_name) ==
    /\ bus' = bus_unregister(bus, service_name)
    /\ busLast' = BusOp("unregister_service", service_name, "none")
    /\ UNCHANGED notBusVars

\* disconnect()
BusDisconnect ==
    /\ bus' = bus_disconnect(bus)
    /\ busLast' = BusOp("disconnect", "", "none")
    /\ UNCHANGED notBusVars

NextBus ==
    \/ \E n \in ServiceNames, r \in RequestNameReplies : RegisterService(n, r)
    \/ \E p \in ObjectPaths, i \in ObjectInterfaces : PublishObject(p, i)
    \/ \E p \in ObjectPaths : UnpublishObject(p)
    \/ \E n \in ServiceNames : UnregisterService(n)
    \/ BusDisconnect

(***************************************************************************)
(* ServerObjectHandler.connect_object and disconnect_object                *)
(***************************************************************************)

\* The signals a published object may declare, in the order of its
\* specification, and the most calls of connect_object in a behaviour.
SignalMembers == <<"Signal1", "Signal2">>
SignalNames == {SignalMembers[i] : i \in 1..Len(SignalMembers)}
MaxInterfaces == 2
MaxConnects == 2

\* The published objects: the number of interfaces of the XML specification,
\* how many of the signals it declares, and the attributes the object has.
PublishedObjects ==
    [interfaces : 0..MaxInterfaces, signals : 0..Len(SignalMembers),
     attrs : SUBSET SignalNames]

\* The teardown callbacks kept in ServerObjectHandler._registrations: the
\* callback that unregisters the object, and the partial that disconnects
\* the emitter of a signal.
UnregisterTeardown(id) ==
    [kind |-> "unregister_object", id |-> id, signal |-> ""]
SignalTeardown(id, signal_name) ==
    [kind |-> "signal.disconnect", id |-> id, signal |-> signal_name]

\* _find_emitter: the partial that emits the signal, one for each call.
Emitter(id) == "emitter" \o ToString(id)

\* The list in the reverse order.
Reverse(s) == [i \in 1..Len(s) |-> s[Len(s) + 1 - i]]

\* GLibServer.register_object and _register_object: every interface is
\* registered on the connection and one callback that unregisters them is
\* recorded; a specification with no interface is refused.
register_object(o) ==
    IF o.interfaces = 0 THEN [raised |-> "DBusSpecificationError", value |-> o]
    ELSE Returned(
        [o EXCEPT
            !.registered = @ \cup {o.serial + 1},
            !.registrations = Append(@, UnregisterTeardown(o.serial + 1)),
            !.serial = @ + 1])

\* _connect_signal: the emitter is connected to the signal of the object and
\* the partial that disconnects it is recorded; an object without the
\* attribute makes _find_handler raise.
connect_signal(o, signal_name) ==
    IF signal_name \notin o.attrs THEN [raised |-> "AttributeError", value |-> o]
    ELSE Returned(
        [o EXCEPT
            !.callbacks[signal_name] = SignalConnect(@, Emitter(o.serial + 1)),
            !.registrations = Append(@, SignalTeardown(o.serial + 1,
                                                       signal_name)),
            !.serial = @ + 1])

\* _connect_signals from the i-th signal member on.
RECURSIVE connect_signals(_, _)
connect_signals(o, i) ==
    IF i > o.signals THEN Returned(o)
    ELSE LET r == connect_signal(o, SignalMembers[i])
         IN  IF r.raised # "none" THEN r ELSE connect_signals(r.value, i + 1)

\* connect_object
connect_object(o) ==
    LET r == register_object(o)
    IN  IF r.raised # "none" THEN r ELSE connect_signals(r.value, 1)

\* Calling a teardown: GLibServer._unregister_object, or Signal.disconnect
\* of the emitter.
InvokeTeardown(o, teardown) ==
    [o EXCEPT
        !.log = Append(@, teardown),
        !.registered = IF teardown.kind = "unregister_object"
                       THEN @ \ {teardown.id} ELSE @,
        !.callbacks = IF teardown.kind = "signal.disconnect"
                      THEN [@ EXCEPT ![teardown.signal] =
                               SignalDisconnect(@, Emitter(teardown.id)).callbacks]
                      ELSE @]

\* disconnect_object that takes the teardowns from the front of the list.
RECURSIVE disconnect_object_Forward(_)
disconnect_object_Forward(o) ==
    IF o.registrations = <<>> THEN o
    ELSE disconnect_object_Forward(InvokeTeardown(
            [o EXCEPT !.registrations = Tail(@)], Head(o.registrations)))

\* disconnect_object that calls the teardowns and keeps them in the list.
RECURSIVE CallTeardowns(_, _)
CallTeardowns(o, i) ==
    IF i = 0 THEN o
    ELSE CallTeardowns(InvokeTeardown(o, o.registrations[i]), i - 1)

disconnect_object_KeepsList(o) == CallTeardowns(o, Len(o.registrations))

\* disconnect_object: while the list is not empty, pop the last callback
\* and call it.
RECURSIVE disconnect_object(_)
disconnect_object(o) ==
    IF o.registrations = <<>> THEN o
    ELSE disconnect_object(InvokeTeardown(
            [o EXCEPT !.registrations = SubSeq(@, 1, Len(@) - 1)],
            o.registrations[Len(o.registrations)]))

\* ServerObjectHandler.__init__ for a published object.
NewObjectHandler(obj) ==
    [interfaces |-> obj.interfaces, signals |-> obj.signals,
     attrs |-> obj.attrs, registrations |-> <<>>,
     callbacks |-> [n \in SignalNames |-> <<>>], registered |-> {},
     serial |-> 0, connects |-> 0, log |-> <<>>]

NoObjectOp ==
    [op |-> "none", raised |-> "none", prevOp |-> "none",
     pre |-> NewObjectHandler([interfaces |-> 0, signals |-> 0, attrs |-> {}])]

\* A handler of an object that declares nothing.
InitObject ==
    /\ object = NoObjectOp.pre
    /\ objLast = NoObjectOp

\* A handler of any of the published objects.
InitPublishedObject ==
    /\ object \in {NewObjectHandler(obj) : obj \in PublishedObjects}
    /\ objLast = [NoObjectOp EXCEPT !.pre = object]

\* handler.connect_object()
ConnectObject ==
    /\ object.connects < MaxConnects
    /\ LET r == connect_object([object EXCEPT !.connects = @ + 1,
                                              !.log = <<>>])
       IN  /\ object' = r.value
           /\ objLast' = [op |-> "connect_object", raised |-> r.raised,
                          prevOp |-> objLast.op, pre |-> object]
    /\ UNCHANGED notObjectVars

\* handler.disconnect_object()
DisconnectObject ==
    /\ object' = disconnect_object([object EXCEPT !.log = <<>>])
    /\ objLast' = [op |-> "disconnect_object", raised |-> "none",
                   prevOp |-> objLast.op, pre |-> object]
    /\ UNCHANGED notObjectVars

NextObject ==
    \/ ConnectObject
    \/ DisconnectObject

(***************************************************************************)
(* ClientObjectHandler._get_signal and disconnect_members                  *)
(***************************************************************************)

\* The most signal proxies a handler creates, callbacks connected to one
\* proxy, deliveries waiting in the main context, and disconnect_members
\* calls of a behaviour.
MaxSignalProxies == 2
MaxProxyCallbacks == 1
MaxQueued == 1
MaxDisconnects == 2

\* A callback of the user, with the number of disconnect_members calls that
\* came before it was connected.
UserCallback(epoch) == [callback |-> "callback", epoch |-> epoch]

\* The callbacks kept in ClientObjectHandler._subscriptions for the i-th
\* signal proxy: the partial that unsubscribes, and signal.disconnect.
UnsubscribeCallback(i) == [kind |-> "unsubscribe", signal |-> i]
SignalDisconnectCallback(i) == [kind |-> "signal.disconnect", signal |-> i]

\* _get_signal: a new Signal is subscribed on the connection, and the
\* unsubscribing callback and signal.disconnect are kept, in this order.
get_signal(m) ==
    [m EXCEPT
        !.signals = Append(@, [callbacks |-> <<>>, unsubscribed |-> 0,
                               connected |-> 0, torn |-> 0]),
        !.active = @ \cup {Len(m.signals) + 1},
        !.subscriptions = @ \o <<UnsubscribeCallback(Len(m.signals) + 1),
                                 SignalDisconnectCallback(Len(m.signals) + 1)>>]

\* Calling a kept callback: GLibClient._unsubscribe_signal, or
\* Signal.disconnect() with no callback.
InvokeSubscription(m, callback) ==
    IF callback.kind = "unsubscribe"
    THEN [m EXCEPT !.active = @ \ {callback.signal},
                   !.signals[callback.signal].unsubscribed = @ + 1,
                   !.signals[callback.signal].torn = m.epoch + 1]
    ELSE [m EXCEPT !.signals[callback.signal].callbacks =
                        SignalDisconnect(@, None).callbacks]

\* disconnect_members that leaves the callbacks of the signals connected.
RECURSIVE disconnect_members_UnsubscribeOnly(_)
disconnect_members_UnsubscribeOnly(m) ==
    IF m.subscriptions = <<>> THEN m
    ELSE LET callback == m.subscriptions[Len(m.subscriptions)]
             rest == [m EXCEPT !.subscriptions = SubSeq(@, 1, Len(@) - 1)]
         IN  disconnect_members_UnsubscribeOnly(
                IF callback.kind = "unsubscribe"
                THEN InvokeSubscription(rest, callback) ELSE rest)

\* disconnect_members: while the list is not empty, pop the last callback
\* and call it.
RECURSIVE disconnect_members(_)
disconnect_members(m) ==
    IF m.subscriptions = <<>> THEN m
    ELSE disconnect_members(InvokeSubscription(
            [m EXCEPT !.subscriptions = SubSeq(@, 1, Len(@) - 1)],
            m.subscriptions[Len(m.subscriptions)]))

\* GLibClient._signal_callback and ClientObjectHandler._signal_callback: the
\* delivery calls signal.emit, which calls the callbacks of a copy of the
\* list.
signal_callback(m, i) ==
    EmitIterable(m.signals[i].callbacks, m.signals[i].callbacks)

\* ClientObjectHandler.__init__
NewMembers ==
    [signals |-> <<>>, subscriptions |-> <<>>, active |-> {}, queue |-> <<>>,
     epoch |-> 0, log |-> <<>>]

NoMembersOp == [op |-> "none", prevOp |-> "none", signal |-> 0,
                pre |-> NewMembers]

MembersOp(op, i) ==
    [op |-> op, prevOp |-> membersLast.op, signal |-> i, pre |-> members]

InitMembers ==
    /\ members = NewMembers
    /\ membersLast = NoMembersOp

\* The proxy creates the member of a signal: handler._get_signal.
GetSignal ==
    /\ Len(members.signals) < MaxSignalProxies
    /\ members' = get_signal(members)
    /\ membersLast' = MembersOp("get_signal", Len(members.signals) + 1)
    /\ UNCHANGED notMembersVars

\* The user connects a callback to the i-th signal proxy.
ConnectProxyCallback(i) ==
    /\ i \in 1..Len(members.signals)
    /\ Len(members.signals[i].callbacks) < MaxProxyCallbacks
    /\ members' = [members EXCEPT
          !.signals[i].callbacks =
              SignalConnect(@, UserCallback(members.epoch)),
          !.signals[i].connected = 1]
    /\ membersLast' = MembersOp("connect", i)
    /\ UNCHANGED notMembersVars

\* The remote object emits the signal of the i-th proxy: the connection
\* queues a delivery for the subscription while it is active.
RemoteSignal(i) ==
    /\ i \in members.active
    /\ Len(members.queue) < MaxQueued
    /\ members' = [members EXCEPT !.queue = Append(@, i)]
    /\ membersLast' = MembersOp("signal", i)
    /\ UNCHANGED notMembersVars

\* The main context dispatches the first waiting delivery, also when the
\* subscription was unsubscribed meanwhile.
DeliverSignal ==
    /\ members.queue # <<>>
    /\ members' = [members EXCEPT
          !.queue = Tail(@),
          !.log = signal_callback(members, Head(members.queue))]
    /\ membersLast' = MembersOp("deliver", Head(members.queue))
    /\ UNCHANGED notMembersVars

\* handler.disconnect_members()
DisconnectMembers ==
    /\ members.epoch < MaxDisconnects
    /\ members' = [disconnect_members(members) EXCEPT !.epoch = @ + 1,
                                                      !.log = <<>>]
    /\ membersLast' = MembersOp("disconnect_members", 0)
    /\ UNCHANGED notMembersVars

NextMembers ==
    \/ GetSignal
    \/ \E i \in 1..MaxSignalProxies : ConnectProxyCallback(i)
    \/ \E i \in 1..MaxSignalProxies : RemoteSignal(i)
    \/ DeliverSignal
    \/ DisconnectMembers

(***************************************************************************)
(* Unix file descriptors in variants: acquire_fds, restore_fds and         *)
(* UnixFDSwap of dasbus/unix.py, and the explicit traversal of             *)
(* dasbus/typing.py (variant_replace_handles_with_fdlist_indices and its   *)
(* reverse).  A type string is a sequence of characters; a Python value is *)
(* a record of one shape, so that values of every kind can be compared.    *)
(***************************************************************************)

\* A Python value inside a variant: py is its kind, n the number of an int,
\* s the text of a str, items the members of a tuple, list, dict or dict
\* entry, and t the type string of a boxed variant whose value is items[1].
PyInt(n) == [py |-> "int", n |-> n, s |-> "", items |-> <<>>, t |-> <<>>]
PyStr(s) == [py |-> "str", n |-> 0, s |-> s, items |-> <<>>, t |-> <<>>]
PyTuple(items) == [py |-> "tuple", n |-> 0, s |-> "", items |-> items, t |-> <<>>]
PyList(items) == [py |-> "list", n |-> 0, s |-> "", items |-> items, t |-> <<>>]
PyEntry(key, value) ==
    [py |-> "entry", n |-> 0, s |-> "", items |-> <<key, value>>, t |-> <<>>]
PyDict(entries) == [py |-> "dict", n |-> 0, s |-> "", items |-> entries, t |-> <<>>]
PyVariant(t, value) ==
    [py |-> "variant", n |-> 0, s |-> "", items |-> <<value>>, t |-> t]

\* A variant object handed to the library: obj tells the objects apart
\* ("given" is the caller's object, "new" one that get_variant built).
GivenVariant(t, value) == [obj |-> "given", t |-> t, value |-> value]
NoneVariant == [obj |-> "None", t |-> <<>>, value |-> PyInt(0)]

\* get_variant(type_string, value) for the values of this section: a new
\* variant object of that type.
new_variant(type_string, value) ==
    [obj |-> "new", t |-> type_string, value |-> value]

\* Gio.UnixFDList, or None.
NoFdList == [none |-> TRUE, fds |-> <<>>]
UnixFDList(descriptors) == [none |-> FALSE, fds |-> descriptors]

\* 'c' in type_string.
Contains(type_string, c) == \E i \in 1..Len(type_string) : type_string[i] = c

RECURSIVE TypeEnd(_, _), CloseAfter(_, _)
\* The position after the complete type that starts at position i.
TypeEnd(sig, i) ==
    IF sig[i] = "a" THEN TypeEnd(sig, i + 1)
    ELSE IF sig[i] \in {"(", "{"} THEN CloseAfter(sig, i + 1)
    ELSE i + 1

\* The position after the bracket that closes the members starting at j.
CloseAfter(sig, j) ==
    IF sig[j] \in {")", "}"} THEN j + 1 ELSE CloseAfter(sig, TypeEnd(sig, j))

RECURSIVE SplitTypes(_, _)
\* The complete types of a signature, from position i on.
SplitTypes(sig, i) ==
    IF i > Len(sig) THEN <<>>
    ELSE <<SubSeq(sig, i, TypeEnd(sig, i) - 1)>> \o SplitTypes(sig, TypeEnd(sig, i))

\* GLib.Variant.split_signature: the member types of a tuple (or of a
\* dictionary entry), and the type itself otherwise.
split_signature(sig) ==
    IF sig[1] \in {"(", "{"} THEN SplitTypes(SubSeq(sig, 2, Len(sig) - 1), 1)
    ELSE <<sig>>

\* _get_idx that gives a descriptor it has seen the position it has.
get_idx_MergesDescriptors(fd_list, fd) ==
    IF \E i \in 1..Len(fd_list) : fd_list[i] = fd
    THEN [value |-> (CHOOSE i \in 1..Len(fd_list) : fd_list[i] = fd) - 1,
          fd_list |-> fd_list]
    ELSE [value |-> Len(fd_list), fd_list |-> Append(fd_list, fd)]

\* _get_idx of acquire_fds: append the descriptor, return its position.
get_idx(fd_list, fd) ==
    LET appended == Append(fd_list, fd)
    IN [value |-> Len(appended) - 1, fd_list |-> appended]

\* list[index] of Python: a negative index counts from the end.
PyIndexable(list, index) == index \in (0 - Len(list))..(Len(list) - 1)
PyItem(list, index) ==
    IF index >= 0 THEN list[index + 1] ELSE list[Len(list) + index + 1]

\* _get_fd of restore_fds: IndexError becomes -1.
get_fd(fd_list, index) ==
    [value |-> IF PyIndexable(fd_list, index) THEN PyItem(fd_list, index) ELSE -1,
     fd_list |-> fd_list]

\* The swapping function handed to UnixFDSwap.apply, with the list it closes
\* over.
Swap(swap, value) ==
    LET r == IF swap.fn = "_get_idx" THEN get_idx(swap.fd_list, value)
             ELSE get_fd(swap.fd_list, value)
    IN [value |-> r.value, swap |-> [swap EXCEPT !.fd_list = r.fd_list]]

\* UnixFDSwap._handle_value: a value of type 'h' is swapped, any other basic
\* value is unpacked.
handle_value(type_string, value, swap) ==
    IF type_string = <<"h">>
    THEN LET r == Swap(swap, value.n)
         IN [value |-> PyInt(r.value), swap |-> r.swap]
    ELSE [value |-> value, swap |-> swap]

RECURSIVE process_variant(_, _, _), process_children(_, _, _, _),
          recreate_variant(_, _, _)

\* UnixFDSwap._recreate_variant: a variant whose type names neither 'h' nor
\* 'v' is returned as it is; another one is rebuilt from its new value.
recreate_variant(type_string, value, swap) ==
    IF ~Contains(type_string, "h") /\ ~Contains(type_string, "v")
    THEN [same |-> TRUE, value |-> value, swap |-> swap]
    ELSE LET r == process_variant(type_string, value, swap)
         IN [same |-> FALSE, value |-> r.value, swap |-> r.swap]

\* UnixFDSwap._handle_variant: unbox the variant and recreate what it holds.
handle_variant(value, swap) ==
    LET r == recreate_variant(value.t, value.items[1], swap)
    IN [value |-> PyVariant(value.t, r.value), swap |-> r.swap]

\* The children of a container, one after the other.
process_children(types, items, i, swap) ==
    IF i > Len(items) THEN [items |-> <<>>, swap |-> swap]
    ELSE LET head == process_variant(types[i], items[i], swap)
             tail == process_children(types, items, i + 1, head.swap)
         IN [items |-> <<head.value>> \o tail.items, swap |-> tail.swap]

\* VariantUnpacking._process_variant: a tuple member by member, an array
\* element by element, a dictionary entry by entry with the key before the
\* value, a boxed variant through _handle_variant and a basic value through
\* _handle_value.
process_variant(type_string, value, swap) ==
    IF type_string[1] \in {"(", "{"}
    THEN LET r == process_children(split_signature(type_string), value.items,
                                   1, swap)
         IN [value |-> [value EXCEPT !.items = r.items], swap |-> r.swap]
    ELSE IF type_string[1] = "a"
    THEN LET r == process_children(
                      [i \in 1..Len(value.items) |-> Tail(type_string)],
                      value.items, 1, swap)
         IN [value |-> [value EXCEPT !.items = r.items], swap |-> r.swap]
    ELSE IF type_string[1] = "v" THEN handle_variant(value, swap)
    ELSE handle_value(type_string, value, swap)

\* UnixFDSwap.apply.
UnixFDSwap_apply(variant, swap) ==
    LET r == recreate_variant(variant.t, variant.value, swap)
    IN [variant |-> IF r.same THEN variant ELSE new_variant(variant.t, r.value),
        swap |-> r.swap]

\* acquire_fds, returning the recreated variant even when it holds no
\* descriptor.
acquire_fds_ReturnsRecreated(variant) ==
    IF variant = NoneVariant THEN [variant |-> NoneVariant, fd_list |-> NoFdList]
    ELSE LET r == UnixFDSwap_apply(variant, [fn |-> "_get_idx", fd_list |-> <<>>])
         IN IF r.swap.fd_list = <<>>
            THEN [variant |-> r.variant, fd_list |-> NoFdList]
            ELSE [variant |-> r.variant, fd_list |-> UnixFDList(r.swap.fd_list)]

\* acquire_fds(variant): the variant with indexes and the list of the
\* descriptors; None instead of the list when there is no descriptor.
acquire_fds(variant) ==
    IF variant = NoneVariant THEN [variant |-> NoneVariant, fd_list |-> NoFdList]
    ELSE LET r == UnixFDSwap_apply(variant, [fn |-> "_get_idx", fd_list |-> <<>>])
         IN IF r.swap.fd_list = <<>>
            THEN [variant |-> variant, fd_list |-> NoFdList]
            ELSE [variant |-> r.variant, fd_list |-> UnixFDList(r.swap.fd_list)]

\* restore_fds that leaves the indexes where they are.
restore_fds_KeepsIndexes(variant, fd_list) == variant

\* restore_fds(variant, fd_list): fd_list.steal_fds() is the list of the
\* descriptors; with no list, or an empty one, the variant is returned as
\* it is.
restore_fds(variant, fd_list) ==
    IF variant = NoneVariant THEN NoneVariant
    ELSE IF fd_list.none THEN variant
    ELSE IF fd_list.fds = <<>> THEN variant
    ELSE UnixFDSwap_apply(variant, [fn |-> "_get_fd", fd_list |-> fd_list.fds]).variant

\* GLib.VariantType.is_basic: one character that is not 'v'.
is_basic(type_string) == Len(type_string) = 1 /\ type_string[1] # "v"

\* DBusType._is_basic_type(valuetype): the keys of _basic_type_mapping are
\* type hints, so that a type string is never one of them.
is_basic_type(valuetype) == FALSE

\* The step on a value of type 'h' in dasbus/typing.py: the descriptor is
\* appended and its position returned, or the index is looked up with
\* fdlist[idx], which raises IndexError out of the list.
replace_leaf(n, swap) ==
    IF swap.fn = "handles_with_fdlist_indices"
    THEN [value |-> Len(swap.fd_list),
          swap |-> [swap EXCEPT !.fd_list = Append(@, n)]]
    ELSE IF PyIndexable(swap.fd_list, n)
    THEN [value |-> PyItem(swap.fd_list, n), swap |-> swap]
    ELSE [value |-> n, swap |-> [swap EXCEPT !.raised = "IndexError"]]

\* newdict[key] = value.
dict_set(entries, key, value) ==
    IF \E i \in 1..Len(entries) : entries[i].items[1] = key
    THEN [i \in 1..Len(entries) |->
            IF entries[i].items[1] = key THEN PyEntry(key, value) ELSE entries[i]]
    ELSE Append(entries, PyEntry(key, value))

RECURSIVE variant_replace(_, _, _), array_replace(_, _, _),
          array_items_replace(_, _, _, _), tuple_replace(_, _, _, _),
          dictionary_replace(_, _, _, _, _)

\* A boxed variant handed to variant_replace_*: what it holds is replaced
\* and the result stays boxed.
boxed_replace(e, swap) ==
    LET r == variant_replace(e.t, e.items[1], swap)
    IN [value |-> PyVariant(e.t, r.value), swap |-> r.swap]

\* dictionary_replace_*: the entries in their order, the key of an entry
\* before its value.
dictionary_replace(typestring, entries, i, newdict, swap) ==
    IF i > Len(entries) THEN [value |-> PyDict(newdict), swap |-> swap]
    ELSE
    LET keytype == typestring[3]
        valuetype == SubSeq(typestring, 4, Len(typestring) - 1)
        k == IF keytype = "h" THEN replace_leaf(entries[i].items[1].n, swap)
             ELSE [value |-> 0, swap |-> swap]
        key == IF keytype = "h" THEN PyInt(k.value) ELSE entries[i].items[1]
        value == entries[i].items[2]
        v == IF valuetype = <<"h">>
             THEN LET r == replace_leaf(value.n, k.swap)
                  IN [value |-> PyInt(r.value), swap |-> r.swap]
             ELSE IF valuetype = <<"v">> THEN boxed_replace(value, k.swap)
             ELSE IF ~is_basic_type(valuetype)
             THEN variant_replace(valuetype, value, k.swap)
             ELSE [value |-> value, swap |-> k.swap]
    IN dictionary_replace(typestring, entries, i + 1,
                          dict_set(newdict, key, v.value), v.swap)

\* The loop of array_replace_* over the elements.
array_items_replace(typestring, items, j, swap) ==
    IF j > Len(items) THEN [items |-> <<>>, swap |-> swap]
    ELSE LET head == IF typestring[2] = "v" THEN boxed_replace(items[j], swap)
                     ELSE variant_replace(Tail(typestring), items[j], swap)
             tail == array_items_replace(typestring, items, j + 1, head.swap)
         IN [items |-> <<head.value>> \o tail.items, swap |-> tail.swap]

\* array_replace_*(e, typestring, fdlist): a dictionary goes back to
\* variant_replace_*, a list is replaced element by element.
array_replace(e, typestring, swap) ==
    IF typestring[2] = "{" THEN variant_replace(typestring, e, swap)
    ELSE LET r == array_items_replace(typestring, e.items, 1, swap)
         IN [value |-> PyList(r.items), swap |-> r.swap]

\* The loop of variant_replace_* over the members of a tuple.
tuple_replace(typelist, unwrapped, i, swap) ==
    IF i > Len(unwrapped) THEN [items |-> <<>>, swap |-> swap]
    ELSE LET e == unwrapped[i]
             head ==
                 IF typelist[i] = <<"h">>
                 THEN LET r == replace_leaf(e.n, swap)
                      IN [value |-> PyInt(r.value), swap |-> r.swap]
                 ELSE IF typelist[i][1] = "a"
                 THEN array_replace(e, typelist[i], swap)
                 ELSE IF typelist[i] = <<"v">> THEN boxed_replace(e, swap)
                 ELSE variant_replace(typelist[i], e, swap)
             tail == tuple_replace(typelist, unwrapped, i + 1, head.swap)
         IN [items |-> <<head.value>> \o tail.items, swap |-> tail.swap]

\* variant_replace_handles_with_fdlist_indices(v, fdlist) and
\* variant_replace_fdlist_indices_with_handles(v, fdlist) on the type and
\* the value of v.  list(unwrap_variant(v)) of a variant of type 'v' is the
\* list of a variant object, a TypeError when that is no container.
variant_replace(typestring, value, swap) ==
    IF is_basic(typestring)
    THEN IF typestring = <<"h">>
         THEN LET r == replace_leaf(value.n, swap)
              IN [value |-> PyInt(r.value), swap |-> r.swap]
         ELSE [value |-> value, swap |-> swap]
    ELSE IF typestring[1] = "a"
    THEN IF typestring[2] = "{"
         THEN dictionary_replace(typestring, value.items, 1, <<>>, swap)
         ELSE array_replace(value, typestring, swap)
    ELSE IF typestring[1] = "v"
    THEN [value |-> value, swap |-> [swap EXCEPT !.raised = "TypeError"]]
    ELSE LET r == tuple_replace(split_signature(typestring), value.items, 1, swap)
         IN [value |-> PyTuple(r.items), swap |-> r.swap]

\* A call of one of the two functions of dasbus/typing.py on a variant
\* object: None has no get_type, a basic value that is no handle is
\* returned as it is.
typing_replace(v, fn, fdlist) ==
    IF v = NoneVariant
    THEN [raised |-> "AttributeError", variant |-> NoneVariant, fdlist |-> fdlist]
    ELSE LET r == variant_replace(v.t, v.value,
                      [fn |-> fn, fd_list |-> fdlist, raised |-> "none"])
         IN [raised |-> r.swap.raised,
             variant |-> IF r.swap.raised # "none" THEN NoneVariant
                         ELSE IF is_basic(v.t) /\ v.t # <<"h">> THEN v
                         ELSE new_variant(v.t, r.value),
             fdlist |-> r.swap.fd_list]

\* variant_replace_handles_with_fdlist_indices(v): fdlist is None, a new
\* list.
variant_replace_handles_with_fdlist_indices(v) ==
    typing_replace(v, "handles_with_fdlist_indices", <<>>)

\* variant_replace_fdlist_indices_with_handles(v, fdlist).
variant_replace_fdlist_indices_with_handles(v, fdlist) ==
    typing_replace(v, "fdlist_indices_with_handles", fdlist)

\* A boxed handle, as in get_variant(Variant, get_variant(UnixFD, fd)).
BoxedHandle(fd) == PyVariant(<<"h">>, PyInt(fd))

\* The variants handed to acquire_fds and to the functions of typing.py:
\* the shapes of tests/test_unix.py (a handle in a tuple, an array of
\* handles, an array of boxed handles, dictionaries keyed and valued by
\* handles, the nested a{saa{sv}}, variants without a handle), a descriptor
\* that occurs twice, and None.
GivenVariants ==
    {NoneVariant,
     GivenVariant(<<"h">>, PyInt(7)),
     GivenVariant(<<"(", "h", ")">>, PyTuple(<<PyInt(7)>>)),
     GivenVariant(<<"(", "h", "h", ")">>, PyTuple(<<PyInt(7), PyInt(7)>>)),
     GivenVariant(<<"(", "h", "h", ")">>, PyTuple(<<PyInt(9), PyInt(7)>>)),
     GivenVariant(<<"(", "i", "h", ")">>, PyTuple(<<PyInt(0), PyInt(7)>>)),
     GivenVariant(<<"a", "h">>, PyList(<<>>)),
     GivenVariant(<<"a", "h">>, PyList(<<PyInt(9), PyInt(7), PyInt(9)>>)),
     GivenVariant(<<"(", "a", "h", ")">>,
                  PyTuple(<<PyList(<<PyInt(7), PyInt(9)>>)>>)),
     GivenVariant(<<"(", "a", "v", ")">>,
                  PyTuple(<<PyList(<<BoxedHandle(7), BoxedHandle(9)>>)>>)),
     GivenVariant(<<"a", "{", "h", "s", "}">>,
                  PyDict(<<PyEntry(PyInt(7), PyStr("r")),
                           PyEntry(PyInt(9), PyStr("w"))>>)),
     GivenVariant(<<"a", "{", "s", "h", "}">>,
                  PyDict(<<PyEntry(PyStr("r"), PyInt(7)),
                           PyEntry(PyStr("w"), PyInt(9))>>)),
     GivenVariant(<<"a", "{", "h", "h", "}">>,
                  PyDict(<<PyEntry(PyInt(7), PyInt(9)),
                           PyEntry(PyInt(9), PyInt(7))>>)),
     GivenVariant(<<"a", "{", "s", "a", "a", "{", "s", "v", "}", "}">>,
                  PyDict(<<PyEntry(PyStr("fds"),
                      PyList(<<PyDict(<<PyEntry(PyStr("read"), BoxedHandle(7)),
                                        PyEntry(PyStr("write"), BoxedHandle(9))
                                      >>)>>))>>)),
     GivenVariant(<<"(", "(", "h", "(", "h", ")", ")", "a", "h", ")">>,
                  PyTuple(<<PyTuple(<<PyInt(7), PyTuple(<<PyInt(9)>>)>>),
                            PyList(<<PyInt(7)>>)>>)),
     GivenVariant(<<"(", "a", "{", "s", "h", "}", "h", ")">>,
                  PyTuple(<<PyDict(<<PyEntry(PyStr("r"), PyInt(7))>>),
                            PyInt(9)>>)),
     GivenVariant(<<"(", "s", "v", ")">>,
                  PyTuple(<<PyStr("x"),
                            PyVariant(<<"(", "h", ")">>, PyTuple(<<PyInt(7)>>))
                          >>)),
     GivenVariant(<<"(", "i", ")">>, PyTuple(<<PyInt(25)>>)),
     GivenVariant(<<"s">>, PyStr("teststr")),
     GivenVariant(<<"(", "v", ")">>,
                  PyTuple(<<PyVariant(<<"i">>, PyInt(25))>>))}

\* The parameters of an incoming message, with indexes where the handles
\* are: indexes in the list, past its end and negative ones.
IndexVariants ==
    {GivenVariant(<<"h">>, PyInt(0)),
     GivenVariant(<<"(", "h", "h", ")">>, PyTuple(<<PyInt(0), PyInt(1)>>)),
     GivenVariant(<<"(", "h", ")">>, PyTuple(<<PyInt(2)>>)),
     GivenVariant(<<"(", "h", ")">>, PyTuple(<<PyInt(-1)>>)),
     GivenVariant(<<"a", "h">>, PyList(<<PyInt(0), PyInt(5)>>)),
     GivenVariant(<<"a", "{", "s", "h", "}">>,
                  PyDict(<<PyEntry(PyStr("r"), PyInt(1))>>)),
     GivenVariant(<<"(", "i", ")">>, PyTuple(<<PyInt(25)>>))}

\* invocation.get_message().get_unix_fd_list(): no list, an empty one, or
\* the descriptors of the message.
FdLists == {NoFdList, UnixFDList(<<>>), UnixFDList(<<7>>), UnixFDList(<<7, 9>>)}

\* A variant on which nothing was called yet.
NoFdsOp(v) ==
    [op |-> "none", given |-> v, list |-> NoFdList, origin |-> v,
     variant |-> v, fd_list |-> NoFdList, raised |-> "none"]

InitFds == fds = NoFdsOp(NoneVariant)

InitGivenVariant == fds \in {NoFdsOp(v) : v \in GivenVariants \cup IndexVariants}

\* GLibClientUnix.sync_call, GLibServerUnix.set_call_reply: acquire_fds on
\* the parameters or on the reply.
AcquireFds ==
    /\ fds.op = "none"
    /\ LET r == acquire_fds(fds.given)
       IN fds' = [op |-> "acquire_fds", given |-> fds.given, list |-> NoFdList,
                  origin |-> fds.given, variant |-> r.variant,
                  fd_list |-> r.fd_list, raised |-> "none"]
    /\ UNCHANGED notFdsVars

\* The other side of the connection: restore_fds on what acquire_fds
\* returned.
RestoreFds ==
    /\ fds.op = "acquire_fds"
    /\ fds' = [op |-> "restore_fds", given |-> fds.variant, list |-> fds.fd_list,
               origin |-> fds.origin,
               variant |-> restore_fds(fds.variant, fds.fd_list),
               fd_list |-> NoFdList, raised |-> "none"]
    /\ UNCHANGED notFdsVars

\* GLibServerUnix._object_callback: restore_fds on the parameters of a
\* message with the list of the message.
ObjectCallback(fd_list) ==
    /\ fds.op = "none"
    /\ fds' = [op |-> "_object_callback", given |-> fds.given, list |-> fd_list,
               origin |-> fds.given,
               variant |-> restore_fds(fds.given, fd_list),
               fd_list |-> NoFdList, raised |-> "none"]
    /\ UNCHANGED notFdsVars

\* variant_replace_handles_with_fdlist_indices of dasbus/typing.py.
ReplaceHandles ==
    /\ fds.op = "none"
    /\ LET r == variant_replace_handles_with_fdlist_indices(fds.given)
       IN fds' = [op |-> "replace_handles", given |-> fds.given,
                  list |-> NoFdList, origin |-> fds.given,
                  variant |-> r.variant, fd_list |-> UnixFDList(r.fdlist),
                  raised |-> r.raised]
    /\ UNCHANGED notFdsVars

\* variant_replace_fdlist_indices_with_handles on what the replacement
\* returned.
ReplaceIndices ==
    /\ fds.op = "replace_handles"
    /\ fds.raised = "none"
    /\ LET r == variant_replace_fdlist_indices_with_handles(
                    fds.variant, fds.fd_list.fds)
       IN fds' = [op |-> "replace_indices", given |-> fds.variant,
                  list |-> fds.fd_list, origin |-> fds.origin,
                  variant |-> r.variant, fd_list |-> NoFdList,
                  raised |-> r.raised]
    /\ UNCHANGED notFdsVars

NextFds ==
    \/ AcquireFds
    \/ RestoreFds
    \/ \E fd_list \in FdLists : ObjectCallback(fd_list)
    \/ ReplaceHandles
    \/ ReplaceIndices

(***************************************************************************)
(* Property proxies of the client: PropertyProxy                           *)
(* (dasbus/client/property.py) and ClientObjectHandler._get_property.      *)
(***************************************************************************)

\* The properties of the remote object (the interface of tests/test_dbus.py:
\* Name is read-only, Secret write-only, Value read-write).
PropertySpecs ==
    {[name |-> "Name", readable |-> TRUE, writable |-> FALSE],
     [name |-> "Secret", readable |-> FALSE, writable |-> TRUE],
     [name |-> "Value", readable |-> TRUE, writable |-> TRUE]}

PropertyNames == {spec.name : spec \in PropertySpecs}

\* The calls one client issues, and the values a property takes.
MaxPropertyCalls == 3
MaxPropertyValue == 1
PropertyValues == 0..MaxPropertyValue

\* No getter or setter (None), and partial(self._get_property_value, spec)
\* or partial(self._set_property_value, spec).
NoAccessor == [fn |-> "None", name |-> "None"]
Accessor(fn, property_spec) == [fn |-> fn, name |-> property_spec.name]

\* _get_property that makes a getter and a setter whatever the access is.
client_get_property_AlwaysBoth(property_spec) ==
    [getter |-> Accessor("_get_property_value", property_spec),
     setter |-> Accessor("_set_property_value", property_spec)]

\* ClientObjectHandler._get_property: PropertyProxy(getter, setter), with a
\* getter only for a readable and a setter only for a writable property.
client_get_property(property_spec) ==
    [getter |-> IF property_spec.readable
                THEN Accessor("_get_property_value", property_spec)
                ELSE NoAccessor,
     setter |-> IF property_spec.writable
                THEN Accessor("_set_property_value", property_spec)
                ELSE NoAccessor]

\* _get_property_value: the call of org.freedesktop.DBus.Properties.Get.
get_property_value(r, name) ==
    [remote |-> [r EXCEPT !.calls = Append(@, [method |-> "Get", name |-> name])],
     raised |-> "none", message |-> "", value |-> r.values[name]]

\* _set_property_value: the call of org.freedesktop.DBus.Properties.Set.
set_property_value(r, name, property_value) ==
    [remote |-> [r EXCEPT !.calls = Append(@, [method |-> "Set", name |-> name]),
                          !.values[name] = property_value],
     raised |-> "none", message |-> "", value |-> 0]

\* PropertyProxy.get and __get__(None, None).
PropertyProxy_get(p, r) ==
    IF p.getter = NoAccessor
    THEN [remote |-> r, raised |-> "AttributeError",
          message |-> "Can't read DBus property.", value |-> 0]
    ELSE get_property_value(r, p.getter.name)

\* PropertyProxy.set and __set__(None, value).
PropertyProxy_set(p, r, value) ==
    IF p.setter = NoAccessor
    THEN [remote |-> r, raised |-> "AttributeError",
          message |-> "Can't set DBus property.", value |-> 0]
    ELSE set_property_value(r, p.setter.name, value)

\* The remote object and the calls that reached it.
NewRemote == [values |-> [n \in PropertyNames |-> 0], calls |-> <<>>]

NoProxyOp ==
    [op |-> "none", spec |-> [name |-> "None", readable |-> FALSE, writable |-> FALSE],
     raised |-> "none", message |-> "", value |-> 0, pre |-> NewRemote]

InitProxy ==
    /\ remote = NewRemote
    /\ proxyLast = NoProxyOp

\* proxy.<Property>: the attribute is read through the property proxy.
GetProperty(property_spec) ==
    /\ Len(remote.calls) < MaxPropertyCalls
    /\ LET r == PropertyProxy_get(client_get_property(property_spec), remote)
       IN /\ remote' = r.remote
          /\ proxyLast' = [op |-> "get", spec |-> property_spec,
                           raised |-> r.raised, message |-> r.message,
                           value |-> r.value, pre |-> remote]
    /\ UNCHANGED notPropProxyVars

\* proxy.<Property> = value.
SetProperty(property_spec, value) ==
    /\ Len(remote.calls) < MaxPropertyCalls
    /\ LET r == PropertyProxy_set(client_get_property(property_spec), remote,
                                  value)
       IN /\ remote' = r.remote
          /\ proxyLast' = [op |-> "set", spec |-> property_spec,
                           raised |-> r.raised, message |-> r.message,
                           value |-> value, pre |-> remote]
    /\ UNCHANGED notPropProxyVars

NextProxy ==
    \/ \E property_spec \in PropertySpecs : GetProperty(property_spec)
    \/ \E property_spec \in PropertySpecs, value \in PropertyValues :
          SetProperty(property_spec, value)

(***************************************************************************)
(* The default property handlers of the server: _find_default_handler,     *)
(* _get_property and _set_property of ServerObjectHandler.                 *)
(***************************************************************************)

\* The properties of the published object (the interface of test_property
\* in tests/test_server.py).
ServerPropertySpecs ==
    {[interface_name |-> "Interface", name |-> "Property1",
      readable |-> TRUE, writable |-> TRUE],
     [interface_name |-> "Interface", name |-> "Property2",
      readable |-> TRUE, writable |-> FALSE],
     [interface_name |-> "Interface", name |-> "Property3",
      readable |-> FALSE, writable |-> TRUE]}

ServerPropertyNames == {spec.name : spec \in ServerPropertySpecs}

\* The names a call of Get or Set may carry; "Property4" is not specified.
CalledPropertyNames == ServerPropertyNames \cup {"Property4"}

\* The members of org.freedesktop.DBus.Properties a call may name.
PropertiesMembers == {"Get", "Set"}

\* What a default handler returned or raised, and the attributes of the
\* object after it.
HandlerReturned(attrs, value) ==
    [raised |-> "none", message |-> "", value |-> value, attrs |-> attrs]
HandlerRaised(attrs, type, message) ==
    [raised |-> type, message |-> message, value |-> 0, attrs |-> attrs]

\* _find_member_spec for a property: specification.get_member raises for a
\* member that is not specified.
find_property_spec(interface_name, property_name) ==
    IF \E spec \in ServerPropertySpecs :
          spec.interface_name = interface_name /\ spec.name = property_name
    THEN [raised |-> "none",
          value |-> CHOOSE spec \in ServerPropertySpecs :
                      spec.interface_name = interface_name
                      /\ spec.name = property_name]
    ELSE [raised |-> "DBusSpecificationError",
          value |-> [interface_name |-> interface_name, name |-> property_name,
                     readable |-> FALSE, writable |-> FALSE]]

\* _find_default_handler: the handlers of org.freedesktop.DBus.Properties.
find_default_handler(interface_name, member_name) ==
    IF interface_name = "org.freedesktop.DBus.Properties"
    THEN IF member_name = "Get" THEN "_get_property"
         ELSE IF member_name = "Set" THEN "_set_property"
         ELSE IF member_name = "GetAll" THEN "_get_all_properties"
         ELSE IF member_name = "PropertiesChanged" THEN "_properties_changed"
         ELSE None
    ELSE None

\* _get_property: the default handler of the Get method.
server_get_property(attrs, interface_name, property_name) ==
    LET member == find_property_spec(interface_name, property_name)
    IN IF member.raised # "none" THEN HandlerRaised(attrs, member.raised, "")
       ELSE IF ~member.value.readable
       THEN HandlerRaised(attrs, "AttributeError",
                "The property " \o interface_name \o "." \o property_name
                \o " is not readable.")
       ELSE HandlerReturned(attrs, attrs[property_name])

\* _set_property that writes the attribute before it looks at the access.
server_set_property_Eager(attrs, interface_name, property_name, property_value) ==
    LET member == find_property_spec(interface_name, property_name)
    IN IF member.raised # "none" THEN HandlerRaised(attrs, member.raised, "")
       ELSE IF ~member.value.writable
       THEN HandlerRaised([attrs EXCEPT ![property_name] = property_value],
                "AttributeError",
                "The property " \o interface_name \o "." \o property_name
                \o " is not writable.")
       ELSE HandlerReturned([attrs EXCEPT ![property_name] = property_value], 0)

\* _set_property: the default handler of the Set method.
server_set_property(attrs, interface_name, property_name, property_value) ==
    LET member == find_property_spec(interface_name, property_name)
    IN IF member.raised # "none" THEN HandlerRaised(attrs, member.raised, "")
       ELSE IF ~member.value.writable
       THEN HandlerRaised(attrs, "AttributeError",
                "The property " \o interface_name \o "." \o property_name
                \o " is not writable.")
       ELSE HandlerReturned([attrs EXCEPT ![property_name] = property_value], 0)

\* _handle_call of a member of org.freedesktop.DBus.Properties: the object
\* has no attribute Get or Set, so that _find_handler takes the default
\* handler.
properties_handle_call(attrs, call) ==
    LET handler == find_default_handler(call.interface_name, call.member)
    IN IF handler = "_get_property"
       THEN server_get_property(attrs, call.interface, call.property)
       ELSE IF handler = "_set_property"
       THEN server_set_property(attrs, call.interface, call.property, call.value)
       ELSE HandlerRaised(attrs, "AttributeError", "")

\* _method_callback for such a call: the result is sent with
\* set_call_reply, an exception goes to _handle_method_error.
properties_method_callback(rules, attrs, call) ==
    LET result == properties_handle_call(attrs, call)
    IN IF result.raised = "none"
       THEN [attrs |-> result.attrs, message |-> "",
             effects |-> <<[do |-> "return_value", value |-> call.member]>>]
       ELSE [attrs |-> result.attrs, message |-> result.message,
             effects |-> handle_method_error(rules, result.raised).value]

\* The attributes of the published object.
NewPublished == [n \in ServerPropertyNames |-> 0]

NoPublishedOp ==
    [op |-> "none", property |-> None, value |-> 0, effects |-> <<>>,
     message |-> "", pre |-> NewPublished]

InitPublished ==
    /\ published = NewPublished
    /\ publishedLast = NoPublishedOp

\* A call of a member of org.freedesktop.DBus.Properties comes in.
PropertiesCall(member, property_name, value) ==
    /\ LET r == properties_method_callback(error_rules, published,
                    [interface_name |-> "org.freedesktop.DBus.Properties",
                     member |-> member, interface |-> "Interface",
                     property |-> property_name, value |-> value])
       IN /\ published' = r.attrs
          /\ publishedLast' = [op |-> member, property |-> property_name,
                               value |-> value, effects |-> r.effects,
                               message |-> r.message, pre |-> published]
    /\ UNCHANGED notPropServerVars

\* The service itself writes an attribute of its object.
ObjectWrite(property_name, value) ==
    /\ published' = [published EXCEPT ![property_name] = value]
    /\ publishedLast' = [op |-> "write", property |-> property_name,
                         value |-> value, effects |-> <<>>, message |-> "",
                         pre |-> published]
    /\ UNCHANGED notPropServerVars

NextPublished ==
    \/ \E property_name \in CalledPropertyNames :
          PropertiesCall("Get", property_name, 0)
    \/ \E property_name \in CalledPropertyNames, value \in PropertyValues :
          PropertiesCall("Set", property_name, value)
    \/ \E property_name \in ServerPropertyNames, value \in PropertyValues :
          ObjectWrite(property_name, value)

(***************************************************************************)
(* The reply of a method call: GLibServer._get_reply_value on the server   *)
(* and ClientObjectHandler._handle_method_result on the client, on the     *)
(* typed values of the section above.                                      *)
(***************************************************************************)

\* Python's None as a value, and the out_type of a method without output.
PyNone == [py |-> "None", n |-> 0, s |-> "", items |-> <<>>, t |-> <<>>]
NoOutType == <<>>

\* The output signatures of the published methods.
OutTypes ==
    {NoOutType,
     <<"(", "i", ")">>,
     <<"(", "s", ")">>,
     <<"(", "a", "i", ")">>,
     <<"(", "a", "s", ")">>,
     <<"(", "(", "i", "s", ")", ")">>,
     <<"(", "i", "s", ")">>,
     <<"(", "i", "s", "i", ")">>}

\* What a handler may return.
OutValues ==
    {PyNone, PyInt(0), PyInt(1), PyStr(""), PyStr("a"),
     PyList(<<>>), PyList(<<PyInt(1)>>), PyList(<<PyStr("a"), PyStr("")>>),
     PyTuple(<<PyInt(1), PyStr("a")>>),
     PyTuple(<<PyInt(0), PyStr("")>>),
     PyTuple(<<PyInt(1), PyStr("a"), PyInt(0)>>)}

RECURSIVE Fits(_, _)
\* GLib.Variant(type_string, value) accepts the value.
Fits(type_string, value) ==
    IF type_string = <<"i">> THEN value.py = "int"
    ELSE IF type_string = <<"s">> THEN value.py = "str"
    ELSE IF type_string[1] = "("
    THEN /\ value.py = "tuple"
         /\ Len(value.items) = Len(split_signature(type_string))
         /\ \A k \in 1..Len(value.items) :
               Fits(split_signature(type_string)[k], value.items[k])
    ELSE IF type_string[1] = "a"
    THEN /\ value.py = "list"
         /\ \A k \in 1..Len(value.items) :
               Fits(Tail(type_string), value.items[k])
    ELSE FALSE

\* is_tuple_of_one on a type string: variant_type.is_tuple() and
\* variant_type.n_items() == 1.
type_is_tuple_of_one(type_string) ==
    type_string[1] = "(" /\ Len(split_signature(type_string)) = 1

\* get_variant that wraps None as any other value.
get_reply_variant_AcceptsNone(type_string, value) ==
    IF value # PyNone /\ ~Fits(type_string, value)
    THEN [raised |-> "TypeError", variant |-> NoneVariant]
    ELSE [raised |-> "none", variant |-> new_variant(type_string, value)]

\* get_variant(type_hint, value) of the reply: None is refused, and so is a
\* value that GLib cannot put into the type.
get_reply_variant(type_string, value) ==
    IF value = PyNone \/ ~Fits(type_string, value)
    THEN [raised |-> "TypeError", variant |-> NoneVariant]
    ELSE [raised |-> "none", variant |-> new_variant(type_string, value)]

\* _get_reply_value that takes a tuple the handler returned for the tuple
\* of the reply.
server_get_reply_value_KeepsTuples(out_type, out_value) ==
    IF out_type = NoOutType THEN [raised |-> "none", variant |-> NoneVariant]
    ELSE get_reply_variant(out_type,
            IF type_is_tuple_of_one(out_type) /\ out_value.py # "tuple"
            THEN PyTuple(<<out_value>>) ELSE out_value)

\* GLibServer._get_reply_value(out_type, out_value).
server_get_reply_value(out_type, out_value) ==
    IF out_type = NoOutType THEN [raised |-> "none", variant |-> NoneVariant]
    ELSE get_reply_variant(out_type,
            IF type_is_tuple_of_one(out_type)
            THEN PyTuple(<<out_value>>) ELSE out_value)

\* The reply as the client library returns it: a variant tuple, the empty
\* one when the server returned no value.
ReceivedReply(variant) ==
    IF variant = NoneVariant THEN new_variant(<<"(", ")">>, PyTuple(<<>>))
    ELSE variant

\* unwrap_variant of a variant tuple: the tuple of its items.
unwrap_reply(result) == result.value.items

\* _handle_method_result that tests the one value instead of the tuple.
handle_method_result_TestsValue(result) ==
    LET values == unwrap_reply(result)
    IN IF values = <<>> THEN PyNone
       ELSE IF Len(values) = 1
       THEN IF values[1] \in {PyInt(0), PyStr("")} THEN PyNone ELSE values[1]
       ELSE PyTuple(values)

\* ClientObjectHandler._handle_method_result(result).
handle_method_result(result) ==
    LET values == unwrap_reply(result)
    IN IF values = <<>> THEN PyNone
       ELSE IF Len(values) = 1 THEN values[1]
       ELSE PyTuple(values)

\* No call was answered yet.
NoReplyOp ==
    [stage |-> "none", out_type |-> NoOutType, out_value |-> PyNone,
     raised |-> "none", variant |-> NoneVariant, result |-> PyNone]

InitReply == reply = NoReplyOp

\* GLibServer.set_call_reply: the handler of a method with the output
\* signature out_type returned out_value.
SetCallReply(out_type, out_value) ==
    /\ LET r == server_get_reply_value(out_type, out_value)
       IN reply' = [stage |-> "sent", out_type |-> out_type,
                    out_value |-> out_value, raised |-> r.raised,
                    variant |-> r.variant, result |-> PyNone]
    /\ UNCHANGED notReplyVars

\* _get_method_reply on the client: the reply that was sent is unwrapped.
HandleMethodResult ==
    /\ reply.stage = "sent"
    /\ reply.raised = "none"
    /\ reply' = [reply EXCEPT
                    !.stage = "received",
                    !.result = handle_method_result(ReceivedReply(reply.variant))]
    /\ UNCHANGED notReplyVars

NextReply ==
    \/ \E out_type \in OutTypes, out_value \in OutValues :
          SetCallReply(out_type, out_value)
    \/ HandleMethodResult

(***************************************************************************)
(* The dispatch of an incoming call to its handler: _handle_call,          *)
(* _find_handler, _find_object_handler and the additional arguments.       *)
(***************************************************************************)

\* The interfaces and members a call may name.
DispatchInterfaces == {"Interface", "org.freedesktop.DBus.Properties"}
DispatchMembers == {"Method1", "Get", "Set", "GetAll", "PropertiesChanged"}

\* The unwrapped parameters of a call.
PositionalParameters == {<<>>, <<1>>, <<1, 2>>}

\* No handler (None), a handler the object has under a name, and a default
\* handler of the library.
NoHandler == [kind |-> "None", name |-> "None", accepts |-> FALSE]
DefaultHandler(name) == [kind |-> "default", name |-> name, accepts |-> FALSE]

\* What the published object has under the name of the member: nothing, a
\* value that is false in a test (None, 0, an empty container), a handler,
\* or a handler marked with accepts_additional_arguments.
ObjectAttributeValues ==
    {[kind |-> "absent", name |-> "None", accepts |-> FALSE],
     [kind |-> "falsy", name |-> "attribute", accepts |-> FALSE],
     [kind |-> "handler", name |-> "attribute", accepts |-> FALSE],
     [kind |-> "handler", name |-> "attribute", accepts |-> TRUE]}

\* bool(handler)
IsTruthy(handler) == handler.kind \in {"handler", "default"}

\* _find_object_handler: getattr(self._object, member_name, None).
find_object_handler(attribute) ==
    IF attribute.kind = "absent" THEN NoHandler ELSE attribute

\* _find_default_handler as a handler.
default_handler(interface_name, member_name) ==
    LET name == find_default_handler(interface_name, member_name)
    IN IF name = None THEN NoHandler ELSE DefaultHandler(name)

\* _find_handler that asks for the default handler first.
dispatch_find_handler_DefaultFirst(attribute, interface_name, member_name) ==
    LET handler == IF IsTruthy(default_handler(interface_name, member_name))
                   THEN default_handler(interface_name, member_name)
                   ELSE find_object_handler(attribute)
    IN IF ~IsTruthy(handler)
       THEN [raised |-> "AttributeError", handler |-> NoHandler]
       ELSE [raised |-> "none", handler |-> handler]

\* _find_handler: "object handler or default handler", and AttributeError
\* when that is false.
dispatch_find_handler(attribute, interface_name, member_name) ==
    LET handler == IF IsTruthy(find_object_handler(attribute))
                   THEN find_object_handler(attribute)
                   ELSE default_handler(interface_name, member_name)
    IN IF ~IsTruthy(handler)
       THEN [raised |-> "AttributeError", handler |-> NoHandler]
       ELSE [raised |-> "none", handler |-> handler]

\* are_additional_arguments_supported(handler): the mark that
\* accepts_additional_arguments left on the handler.
are_additional_arguments_supported(handler) == handler.accepts

\* The keyword arguments of _get_additional_arguments.
AdditionalArguments == {"call_info"}

\* _handle_call that passes the additional arguments to every handler.
dispatch_handle_call_AlwaysInjects(attribute, interface_name, method_name, parameters) ==
    LET found == dispatch_find_handler(attribute, interface_name, method_name)
    IN [raised |-> found.raised, handler |-> found.handler,
        args |-> IF found.raised = "none" THEN parameters ELSE <<>>,
        kwargs |-> IF found.raised = "none" THEN AdditionalArguments ELSE {}]

\* _handle_call: find the handler, drop the additional arguments if the
\* handler does not support them, call handler(*parameters,
\* **additional_args).
dispatch_handle_call(attribute, interface_name, method_name, parameters) ==
    LET found == dispatch_find_handler(attribute, interface_name, method_name)
        additional_args ==
            IF are_additional_arguments_supported(found.handler)
            THEN AdditionalArguments ELSE {}
    IN [raised |-> found.raised, handler |-> found.handler,
        args |-> IF found.raised = "none" THEN parameters ELSE <<>>,
        kwargs |-> IF found.raised = "none" THEN additional_args ELSE {}]

\* No call was dispatched yet.
NoDispatch ==
    [called |-> FALSE,
     attribute |-> [kind |-> "absent", name |-> "None", accepts |-> FALSE],
     interface_name |-> "None", member |-> "None", parameters |-> <<>>,
     raised |-> "none", handler |-> NoHandler, args |-> <<>>, kwargs |-> {},
     effects |-> <<>>]

InitDispatch == dispatch = NoDispatch

\* _method_callback for a call of a member of a published object: the
\* handler is found and called; an exception becomes an error reply.
Dispatch(attribute, interface_name, member, parameters) ==
    /\ LET r == dispatch_handle_call(attribute, interface_name, member,
                                     parameters)
       IN dispatch' =
            [called |-> TRUE, attribute |-> attribute,
             interface_name |-> interface_name, member |-> member,
             parameters |-> parameters, raised |-> r.raised,
             handler |-> r.handler, args |-> r.args, kwargs |-> r.kwargs,
             effects |-> IF r.raised = "none" THEN <<>>
                         ELSE handle_method_error(error_rules, r.raised).value]
    /\ UNCHANGED notCallVars

NextDispatch ==
    \E attribute \in ObjectAttributeValues, interface_name \in DispatchInterfaces,
       member \in DispatchMembers, parameters \in PositionalParameters :
        Dispatch(attribute, interface_name, member, parameters)

(***************************************************************************)
(* Type hints and their DBus signatures (dasbus/typing.py).                *)
(*                                                                         *)
(* A type hint is a record with its base type and its type arguments: Int  *)
(* is Hint("Int", <<>>), Dict[Str, List[Int]] is                           *)
(* Hint("Dict", <<Hint("Str", <<>>), Hint("List", <<Hint("Int", <<>>)>>)>>).*)
(* A signature is a sequence of one-character strings.                     *)
(***************************************************************************)
Hint(base, args) == [base |-> base, args |-> args]

\* DBusType._basic_type_mapping.
_basic_type_mapping ==
    [Bool |-> "b", Str |-> "s", Double |-> "d", Int |-> "i", Byte |-> "y",
     Int16 |-> "n", UInt16 |-> "q", Int32 |-> "i", UInt32 |-> "u",
     Int64 |-> "x", UInt64 |-> "t", UnixFD |-> "h", ObjPath |-> "o",
     Variant |-> "v"]

\* DBusType._container_type_mapping: for every container the text before
\* and after the "%s" of its format.
_container_type_mapping ==
    [Tuple |-> [before |-> <<"(">>, after |-> <<")">>],
     List |-> [before |-> <<"a">>, after |-> <<>>],
     Dict |-> [before |-> <<"a", "{">>, after |-> <<"}">>]]

\* get_type_arguments: the arguments of a parametrized type, else ().
get_type_arguments(type_hint) == type_hint.args

\* DBusType._is_basic_type: a basic type takes no arguments.
_is_basic_type(type_hint) ==
    /\ type_hint.base \in DOMAIN _basic_type_mapping
    /\ type_hint.args = <<>>

\* DBusType._get_basic_type.
_get_basic_type(type_hint) == <<_basic_type_mapping[type_hint.base]>>

\* DBusType._is_container_type.
_is_container_type(type_hint) ==
    type_hint.base \in DOMAIN _container_type_mapping

\* DBusType._get_container_base_type.
_get_container_base_type(type_hint) == type_hint.base

Signature(value) == [raised |-> "none", value |-> value, key |-> "None"]

InvalidType == [raised |-> "TypeError", value |-> <<>>, key |-> "None"]

InvalidKey(key) ==
    [raised |-> "TypeError", value |-> <<>>, key |-> key.base]

\* A dictionary check that refuses containers only.
_check_if_valid_dictionary_AllowsVariant(type_hint) ==
    LET key == get_type_arguments(type_hint)[1]
    IN  IF _is_container_type(key) THEN InvalidKey(key) ELSE Signature(<<>>)

\* DBusType._check_if_valid_dictionary: the key of a dictionary is neither
\* a container nor a variant.
_check_if_valid_dictionary(type_hint) ==
    LET key == get_type_arguments(type_hint)[1]
    IN  IF _is_container_type(key) \/ key = Hint("Variant", <<>>)
        THEN InvalidKey(key)
        ELSE Signature(<<>>)

\* "".join(items), where the first item that raises ends the call.
RECURSIVE JoinItems(_)
JoinItems(items) ==
    IF items = <<>> THEN Signature(<<>>)
    ELSE IF Head(items).raised # "none" THEN Head(items)
    ELSE LET rest == JoinItems(Tail(items))
         IN  IF rest.raised # "none" THEN rest
             ELSE Signature(Head(items).value \o rest.value)

RECURSIVE get_dbus_representation(_)

\* A container type that puts the arguments of every container into the
\* format of a list.
_get_container_type_ListFormat(type_hint) ==
    LET args == get_type_arguments(type_hint)
        checked == IF _get_container_base_type(type_hint) = "Dict"
                   THEN _check_if_valid_dictionary(type_hint)
                   ELSE Signature(<<>>)
        container == _container_type_mapping["List"]
        joined == JoinItems([i \in 1..Len(args) |->
                                 get_dbus_representation(args[i])])
    IN  IF checked.raised # "none" THEN checked
        ELSE IF joined.raised # "none" THEN joined
        ELSE Signature(container.before \o joined.value \o container.after)


\* DBusType._get_container_type: the dictionary is checked, the arguments
\* are translated in their order and put into the container's format.
_get_container_type(type_hint) ==
    LET basetype == _get_container_base_type(type_hint)
        args == get_type_arguments(type_hint)
        checked == IF basetype = "Dict"
                   THEN _check_if_valid_dictionary(type_hint)
                   ELSE Signature(<<>>)
        container == _container_type_mapping[basetype]
        joined == JoinItems([i \in 1..Len(args) |->
                                 get_dbus_representation(args[i])])
    IN  IF checked.raised # "none" THEN checked
        ELSE IF joined.raised # "none" THEN joined
        ELSE Signature(container.before \o joined.value \o container.after)

\* DBusType.get_dbus_representation.
get_dbus_representation(type_hint) ==
    IF _is_basic_type(type_hint) THEN Signature(_get_basic_type(type_hint))
    ELSE IF _is_container_type(type_hint) THEN _get_container_type(type_hint)
    ELSE InvalidType

\* get_dbus_type.
get_dbus_type(type_hint) == get_dbus_representation(type_hint)

\* The deepest nesting of the type hints.
MaxDepth == 3

\* The basic types used as type arguments, and all the types used alone;
\* Set is a type without a DBus type.
NestedBasicHints == {Hint(b, <<>>) : b \in {"Int", "Str", "Variant"}}

BasicHints == {Hint(b, <<>>) : b \in DOMAIN _basic_type_mapping}

UnknownHints == {Hint("Set", <<Hint("Int", <<>>)>>)}

\* The keys of the dictionaries: basic types, variants and containers.
KeyHints ==
    NestedBasicHints \cup
    {Hint("Tuple", <<Hint("Int", <<>>), Hint("Int", <<>>)>>),
     Hint("List", <<Hint("Str", <<>>)>>),
     Hint("Dict", <<Hint("Str", <<>>), Hint("Int", <<>>)>>)}

\* The parametrized tuples, lists and dictionaries of a nesting depth.
RECURSIVE ContainerHints(_)
ContainerHints(depth) ==
    IF depth = 0 THEN NestedBasicHints
    ELSE LET inner == ContainerHints(depth - 1)
         IN  NestedBasicHints
             \cup {Hint("Tuple", <<x>>) : x \in inner}
             \cup {Hint("Tuple", <<Hint("Int", <<>>), y>>) : y \in inner}
             \cup {Hint("List", <<x>>) : x \in inner}
             \cup {Hint("Dict", <<k, v>>) : k \in KeyHints, v \in inner}

TypeHints == BasicHints \cup UnknownHints \cup ContainerHints(MaxDepth)

NoTyping(type_hint) ==
    [called |-> FALSE, type_hint |-> type_hint, result |-> InvalidType]

InitTyping == typing = NoTyping(Hint("Int", <<>>))

InitGivenHint == typing \in {NoTyping(h) : h \in TypeHints}

\* get_dbus_type(type_hint) for the given type hint.
GetDBusType ==
    /\ ~typing.called
    /\ typing' = [typing EXCEPT !.called = TRUE,
                                !.result = get_dbus_type(typing.type_hint)]
    /\ UNCHANGED notTypesVars

NextTyping == GetDBusType

(***************************************************************************)
(* The message of a remote error (GLibClient.get_remote_error_message).    *)
(***************************************************************************)

\* The names of the remote errors: a name, longer names that start with
\* it, a shorter name it starts with, and another name.
S_my == <<"m", "y">>
MessageNames == {NameA, NameA \o <<"X">>, NameA \o <<".", "A">>, S_my, NameC}

\* The messages of the errors: with no prefix, with the prefix of every
\* name (once, twice, after other text, ending without the space, with no
\* text after it), and the empty message.
ErrorMessages ==
    {<<>>, S_Failed, S_GDBusError \o <<":", " ">> \o S_Failed}
    \cup {GDBusPrefix(n) \o S_Failed : n \in MessageNames}
    \cup {GDBusPrefix(n) \o GDBusPrefix(n) \o S_Failed : n \in MessageNames}
    \cup {S_Failed \o GDBusPrefix(n) : n \in MessageNames}
    \cup {S_GDBusError \o <<":">> \o n \o <<":">> \o S_Failed :
            n \in MessageNames}
    \cup {GDBusPrefix(n) : n \in MessageNames}

\* The GLib.Error of a reply with the error name and the message as given.
GLibError(name, message) ==
    [remote |-> TRUE, name |-> name, message |-> message,
     cls |-> "GLib.Error", dbus_name |-> <<>>, origin |-> "transport"]

NoExtraction == [called |-> FALSE, error |-> NoError, message |-> <<>>]

InitMessage == extraction = NoExtraction

\* get_remote_error_message(error) for the error of a reply.
GetRemoteErrorMessage(error) ==
    /\ extraction' = [called |-> TRUE, error |-> error,
                      message |-> get_remote_error_message(error)]
    /\ UNCHANGED notMessageVars

NextMessage ==
    \E name \in MessageNames, message \in ErrorMessages :
        GetRemoteErrorMessage(GLibError(name, message))

(***************************************************************************)
(* The specification of a ClientObjectHandler and the members made of it   *)
(* (AbstractClientObjectHandler.specification, create_member).             *)
(***************************************************************************)

\* The most accesses to the specification of one handler.
MaxAccesses == 4

\* How the call of Introspectable.Introspect ends when it is made.
IntrospectReplies == {"xml", "error"}

\* The members asked for: a method, a property and a signal of the
\* specification, and a member it does not have.
CachedMembers ==
    [Method1 |-> "Method", Property1 |-> "Property", Signal1 |-> "Signal"]

RequestedMembers == DOMAIN CachedMembers \cup {"Missing"}

\* A DBusSpecification is an object without __bool__ and __len__: true in
\* a boolean test, as None is not.
IsSpecification(value) == value # None

\* ClientObjectHandler._get_specification: the Introspect call and the
\* parsing of its reply.
_get_specification(introspect_reply) ==
    IF introspect_reply = "xml"
    THEN [raised |-> "none", value |-> "DBusSpecification"]
    ELSE [raised |-> "DBusError", value |-> None]

\* A specification property that introspects on every access.
specification_AlwaysIntrospects(handler, introspect_reply) ==
    LET r == _get_specification(introspect_reply)
    IN  [raised |-> r.raised, value |-> r.value, issued |-> TRUE,
         _specification |-> IF r.raised = "none" THEN r.value
                            ELSE handler._specification]

\* AbstractClientObjectHandler.specification: the specification is
\* fetched when the handler has none, kept if the call returns, and
\* returned.
specification(handler, introspect_reply) ==
    IF ~IsSpecification(handler._specification)
    THEN LET r == _get_specification(introspect_reply)
         IN  [raised |-> r.raised, value |-> r.value, issued |-> TRUE,
              _specification |-> IF r.raised = "none" THEN r.value
                                 ELSE handler._specification]
    ELSE [raised |-> "none", value |-> handler._specification,
          issued |-> FALSE, _specification |-> handler._specification]

\* DBusSpecification.get_member.
get_member(interface_name, member_name) ==
    IF member_name \in DOMAIN CachedMembers
    THEN [raised |-> "none", value |-> CachedMembers[member_name]]
    ELSE [raised |-> "DBusSpecificationError", value |-> None]

\* AbstractClientObjectHandler._find_handler.
client_find_handler(member_type) ==
    CASE member_type = "Property" -> "_get_property"
      [] member_type = "Method" -> "_get_method"
      [] member_type = "Signal" -> "_get_signal"

\* AbstractClientObjectHandler.create_member.
create_member(handler, interface_name, member_name, introspect_reply) ==
    LET s == specification(handler, introspect_reply)
        spec == get_member(interface_name, member_name)
    IN  [raised |-> IF s.raised # "none" THEN s.raised ELSE spec.raised,
         issued |-> s.issued,
         _specification |-> s._specification,
         member |-> IF s.raised # "none" \/ spec.raised # "none" THEN None
                    ELSE client_find_handler(spec.value)]

NewClientHandler ==
    [_specification |-> None, accesses |-> 0, introspections |-> 0,
     fetched |-> 0, cached |-> FALSE, issued |-> FALSE, raised |-> "none",
     member |-> None, created |-> <<>>]

InitCache == cache = NewClientHandler

\* create_member of the handler, with the reply the Introspect call gets
\* if it is made; cached tells if the handler had a specification before,
\* created lists the members made so far.
CreateMember(member_name, introspect_reply) ==
    /\ cache.accesses < MaxAccesses
    /\ LET r == create_member(cache, "my.Interface", member_name,
                              introspect_reply)
       IN cache' =
            [_specification |-> r._specification,
             accesses |-> cache.accesses + 1,
             introspections |-> cache.introspections
                                    + (IF r.issued THEN 1 ELSE 0),
             fetched |-> cache.fetched
                             + (IF r.issued /\ r.raised # "DBusError"
                                THEN 1 ELSE 0),
             cached |-> IsSpecification(cache._specification),
             issued |-> r.issued, raised |-> r.raised, member |-> r.member,
             created |-> Append(cache.created, r.member)]
    /\ UNCHANGED notCacheVars

NextCache ==
    \E member_name \in RequestedMembers, introspect_reply \in IntrospectReplies :
        CreateMember(member_name, introspect_reply)

(***************************************************************************)
(* The services of a MessageBus and the access to them (register_service,  *)
(* get_proxy and _check_service_access of dasbus/connection.py).           *)
(***************************************************************************)

\* The threads that call get_proxy.
Threads == {"MainThread", "Thread-1"}

\* The names with a release callback in the table of the bus: the services
\* that were registered and are not unregistered yet.
RegisteredServices(b) ==
    {n \in ServiceNames : DictIndex(b.registrations, n) # 0}

\* MessageBus._check_service_access.
_check_service_access(b, service_name, current_thread) ==
    IF service_name \notin b.requested_names THEN "none"
    ELSE IF current_thread # "MainThread" THEN "none"
    ELSE "RuntimeError"

\* MessageBus.get_proxy: the proxy of the default factory, unless the check
\* raises.
get_proxy(b, service_name, object_path, current_thread) ==
    LET raised == _check_service_access(b, service_name, current_thread)
    IN  [raised |-> raised,
         proxy |-> IF raised # "none" THEN <<>>
                   ELSE <<"ObjectProxy", service_name, object_path>>]

\* The bus, its last operation with the bus before it, and the names whose
\* registration was refused.
NoAccess ==
    [bus |-> NewMessageBus, before |-> NewMessageBus, op |-> "none",
     key |-> "", result |-> "none", thread |-> "none", raised |-> "none",
     proxy |-> <<>>, refused |-> {}]

InitAccess == access = NoAccess

\* register_service(service_name); the bus answers ALREADY_OWNER exactly when
\* the connection owns the name.
AccessRegisterService(service_name, result) ==
    /\ Len(access.bus.made) < MaxRegistrations
    /\ (result = "ALREADY_OWNER") <=> (service_name \in access.bus.owned)
    /\ LET r == register_service(access.bus, service_name, result)
       IN  access' =
             [bus |-> r.value, before |-> access.bus,
              op |-> "register_service", key |-> service_name,
              result |-> result, thread |-> "MainThread",
              raised |-> r.raised, proxy |-> <<>>,
              refused |-> IF r.raised = "none" THEN access.refused
                          ELSE access.refused \cup {service_name}]
    /\ UNCHANGED notAccessVars

\* get_proxy(service_name, object_path) called in a thread.
AccessGetProxy(service_name, current_thread) ==
    /\ LET r == get_proxy(access.bus, service_name, "/my/object/1",
                          current_thread)
       IN  access' =
             [access EXCEPT !.before = access.bus, !.op = "get_proxy",
                            !.key = service_name, !.result = "none",
                            !.thread = current_thread, !.raised = r.raised,
                            !.proxy = r.proxy]
    /\ UNCHANGED notAccessVars

\* unregister_service(service_name)
AccessUnregisterService(service_name) ==
    /\ access' =
         [access EXCEPT !.bus = bus_unregister(access.bus, service_name),
                        !.before = access.bus, !.op = "unregister_service",
                        !.key = service_name, !.result = "none",
                        !.thread = "MainThread", !.raised = "none",
                        !.proxy = <<>>]
    /\ UNCHANGED notAccessVars

\* disconnect()
AccessDisconnect ==
    /\ access' =
         [access EXCEPT !.bus = bus_disconnect(access.bus),
                        !.before = access.bus, !.op = "disconnect",
                        !.key = "", !.result = "none",
                        !.thread = "MainThread", !.raised = "none",
                        !.proxy = <<>>]
    /\ UNCHANGED notAccessVars

NextAccess ==
    \/ \E n \in ServiceNames, r \in RequestNameReplies :
            AccessRegisterService(n, r)
    \/ \E n \in ServiceNames, t \in Threads : AccessGetProxy(n, t)
    \/ \E n \in ServiceNames : AccessUnregisterService(n)
    \/ AccessDisconnect

(***************************************************************************)
(* The order of the steps of _method_callback: the member is looked up in  *)
(* the specification before the published object is asked for a handler.   *)
(***************************************************************************)

\* The members of the specification of the published object.
SpecifiedMembers ==
    {<<"my.Interface", "Method1">>, <<"my.Interface", "Method2">>,
     <<"my.Other", "Method3">>}

\* The interfaces and members an incoming call may name, and the names the
\* published object may have as attributes.
CalledInterfaces == {"my.Interface", "my.Other", "my.Unknown"}
CalledMembers == {"Method1", "Method2", "Method3", "Hidden"}
ObjectAttributeSets ==
    {{}, {"Method1"}, {"Method3", "Hidden"}, CalledMembers}
\* How the handler ends when it is called: it returns, or raises an
\* exception of a class.
HandlerOutcomes == {"return", "ExceptionA", "ExceptionC"}

\* _find_member_spec: specification.get_member of the pair.
server_find_member_spec(interface_name, member_name) ==
    IF <<interface_name, member_name>> \in SpecifiedMembers
    THEN Returned(member_name)
    ELSE Raised("DBusSpecificationError")

\* _handle_call on an object with the attributes: the uses of the object
\* (getattr, then the call of the handler) and how the call ends.
server_handle_call(attributes, member_name, outcome) ==
    IF member_name \notin attributes
    THEN [raised |-> "AttributeError",
          uses |-> <<[do |-> "getattr", name |-> member_name]>>]
    ELSE [raised |-> IF outcome = "return" THEN "none" ELSE outcome,
          uses |-> <<[do |-> "getattr", name |-> member_name],
                     [do |-> "call", name |-> member_name]>>]

\* A callback that calls the handler before it looks the member up.
server_method_callback_HandlerFirst(rules, attributes, interface_name, method_name, outcome) ==
    LET member == server_find_member_spec(interface_name, method_name)
        result == server_handle_call(attributes, method_name, outcome)
    IN  IF result.raised # "none"
        THEN [uses |-> result.uses,
              effects |-> handle_method_error(rules, result.raised).value]
        ELSE IF member.raised # "none"
        THEN [uses |-> result.uses,
              effects |-> handle_method_error(rules, member.raised).value]
        ELSE [uses |-> result.uses,
              effects |-> <<[do |-> "return_value", value |-> None]>>]

\* _method_callback for a method without parameters and result: the uses
\* of the published object and what is done to the invocation.
server_method_callback(rules, attributes, interface_name, method_name, outcome) ==
    LET member == server_find_member_spec(interface_name, method_name)
        result == server_handle_call(attributes, method_name, outcome)
    IN  IF member.raised # "none"
        THEN [uses |-> <<>>,
              effects |-> handle_method_error(rules, member.raised).value]
        ELSE IF result.raised # "none"
        THEN [uses |-> result.uses,
              effects |-> handle_method_error(rules, result.raised).value]
        ELSE [uses |-> result.uses,
              effects |-> <<[do |-> "return_value", value |-> None]>>]

NoValidation ==
    [called |-> FALSE, attributes |-> {}, interface_name |-> "None",
     member |-> "None", outcome |-> "None", rules |-> <<>>, uses |-> <<>>,
     effects |-> <<>>]

InitValidation == validation = NoValidation

\* A call of interface_name.member comes in for an object with the
\* attributes, published with the error mapper rules.
ValidatedCall(rules, attributes, interface_name, member, outcome) ==
    /\ LET r == server_method_callback(rules, attributes,
                                       interface_name, member, outcome)
       IN  validation' =
             [called |-> TRUE, attributes |-> attributes,
              interface_name |-> interface_name, member |-> member,
              outcome |-> outcome, rules |-> rules,
              uses |-> r.uses, effects |-> r.effects]
    /\ UNCHANGED notValidationVars

NextValidation ==
    \E rules \in ClientMappers, attributes \in ObjectAttributeSets,
       interface_name \in CalledInterfaces, member \in CalledMembers,
       outcome \in HandlerOutcomes :
        ValidatedCall(rules, attributes, interface_name, member, outcome)

(***************************************************************************)
(* The signals of a published object on their way to the bus:              *)
(* ServerObjectHandler._emit_signal between connect_object and             *)
(* disconnect_object.                                                      *)
(***************************************************************************)

\* The declared types of the signals: Signal1 has no arguments, Signal2 has
\* an integer and a string.
SignalTypes ==
    [Signal1 |-> NoOutType, Signal2 |-> <<"(", "i", "s", ")">>]

\* The arguments of a local emission.
EmittedArguments ==
    {<<>>, <<PyInt(1), PyStr("a")>>, <<PyInt(0), PyStr("")>>, <<PyInt(1)>>}

\* The most emissions of a behaviour.
MaxEmissions == 2

\* The published object: one interface with the two signals.
ForwardedObject ==
    [interfaces |-> 1, signals |-> Len(SignalMembers), attrs |-> SignalNames]

\* A tuple of Python values given to emit_signal as it is.
RawParameters(parameters) ==
    [obj |-> "tuple", t |-> <<>>, value |-> PyTuple(parameters)]

\* The arguments of the emission are what the signal declares.
FitsSignal(signal_name, parameters) ==
    IF SignalTypes[signal_name] = NoOutType THEN parameters = <<>>
    ELSE parameters # <<>>
         /\ Fits(SignalTypes[signal_name], PyTuple(parameters))

\* An emitter that hands the empty tuple of arguments on.
server_emit_signal_KeepsEmptyTuple(interface_name, signal_name, parameters) ==
    LET type == SignalTypes[signal_name]
        variant == get_reply_variant(type, PyTuple(parameters))
    IN  IF type = NoOutType
        THEN [raised |-> "none",
              emitted |-> <<[interface_name |-> interface_name,
                             signal_name |-> signal_name,
                             parameters |-> RawParameters(parameters)]>>]
        ELSE IF variant.raised # "none"
        THEN [raised |-> variant.raised, emitted |-> <<>>]
        ELSE [raised |-> "none",
              emitted |-> <<[interface_name |-> interface_name,
                             signal_name |-> signal_name,
                             parameters |-> variant.variant]>>]

\* ServerObjectHandler._emit_signal: no arguments become None, a declared
\* type makes a variant of them, and emit_signal is called on the
\* connection.
server_emit_signal(interface_name, signal_name, parameters) ==
    LET type == SignalTypes[signal_name]
        variant == get_reply_variant(type,
                        IF parameters = <<>> THEN PyNone
                        ELSE PyTuple(parameters))
    IN  IF type = NoOutType
        THEN [raised |-> "none",
              emitted |-> <<[interface_name |-> interface_name,
                             signal_name |-> signal_name,
                             parameters |-> IF parameters = <<>>
                                            THEN NoneVariant
                                            ELSE RawParameters(parameters)]>>]
        ELSE IF variant.raised # "none"
        THEN [raised |-> variant.raised, emitted |-> <<>>]
        ELSE [raised |-> "none",
              emitted |-> <<[interface_name |-> interface_name,
                             signal_name |-> signal_name,
                             parameters |-> variant.variant]>>]

\* Signal.emit of the object's signal: the connected emitters are called
\* in their order, and the first exception ends the emission.
RECURSIVE emit_to_callbacks(_, _, _)
emit_to_callbacks(callbacks_left, signal_name, parameters) ==
    IF callbacks_left = <<>> THEN [raised |-> "none", emitted |-> <<>>]
    ELSE LET first == server_emit_signal("my.Interface", signal_name,
                                         parameters)
             rest == emit_to_callbacks(Tail(callbacks_left), signal_name,
                                       parameters)
         IN  IF first.raised # "none" THEN first
             ELSE [raised |-> rest.raised,
                   emitted |-> first.emitted \o rest.emitted]

\* connect_object on a connection that refuses to register an interface at
\* a path where it is registered already.
forward_connect_object(o) ==
    IF o.registered # {} THEN [raised |-> "GLib.Error", value |-> o]
    ELSE connect_object(o)

NoForward ==
    [handler |-> NewObjectHandler(ForwardedObject), connected |-> FALSE,
     was_connected |-> FALSE, op |-> "none", signal_name |-> "None",
     parameters |-> <<>>, raised |-> "none", emitted |-> <<>>,
     emissions |-> 0]

InitForward == forward = NoForward

\* handler.connect_object()
ForwardConnect ==
    /\ forward.handler.connects < MaxConnects
    /\ LET r == forward_connect_object(
                    [forward.handler EXCEPT !.connects = @ + 1, !.log = <<>>])
       IN  forward' =
             [forward EXCEPT !.handler = r.value,
                             !.connected = @ \/ r.raised = "none",
                             !.was_connected = forward.connected,
                             !.op = "connect_object",
                             !.signal_name = "None", !.parameters = <<>>,
                             !.raised = r.raised, !.emitted = <<>>]
    /\ UNCHANGED notForwardVars

\* handler.disconnect_object()
ForwardDisconnect ==
    /\ forward' =
         [forward EXCEPT !.handler = disconnect_object(
                                         [forward.handler EXCEPT !.log = <<>>]),
                         !.connected = FALSE,
                         !.was_connected = forward.connected,
                         !.op = "disconnect_object",
                         !.signal_name = "None", !.parameters = <<>>,
                         !.raised = "none", !.emitted = <<>>]
    /\ UNCHANGED notForwardVars

\* The object emits its signal: object.Signal(*parameters).
ForwardEmit(signal_name, parameters) ==
    /\ forward.emissions < MaxEmissions
    /\ LET r == emit_to_callbacks(forward.handler.callbacks[signal_name],
                                  signal_name, parameters)
       IN  forward' =
             [forward EXCEPT !.was_connected = forward.connected,
                             !.op = "emit", !.signal_name = signal_name,
                             !.parameters = parameters,
                             !.raised = r.raised, !.emitted = r.emitted,
                             !.emissions = @ + 1]
    /\ UNCHANGED notForwardVars

NextForward ==
    \/ ForwardConnect
    \/ ForwardDisconnect
    \/ \E signal_name \in SignalNames, parameters \in EmittedArguments :
            ForwardEmit(signal_name, parameters)

(***************************************************************************)
(* The call of a method proxy: ClientObjectHandler._call_method, from the  *)
(* positional arguments of the caller to the parameters handed to          *)
(* sync_call or async_call of the client library.                          *)
(***************************************************************************)

\* The in_type of a method without input, and the input signatures of the
\* methods of the remote object.
NoInType == <<>>
InTypes == {NoInType, <<"(", "i", ")">>, <<"(", "i", "s", ")">>}

\* The positional arguments a caller may supply.
SuppliedParameters ==
    {<<>>, <<PyInt(1)>>, <<PyStr("a")>>, <<PyInt(1), PyStr("a")>>}

\* The callback keyword of the caller: absent, or a callable.
SuppliedCallbacks == {"None", "callback"}

\* The calls of the client library kept in the history.
MaxIssued == 2

\* What is handed to the client library as parameters: a variant, or the
\* object the caller's arguments were left as.
Handed(variant, raw) == [variant |-> variant, raw |-> raw]
NothingHanded == Handed(NoneVariant, PyNone)

\* _call_method that replaces the arguments of a method without input by
\* None.
client_call_method_DropsArguments(in_type, parameters, callback) ==
    LET given == IF parameters = <<>> THEN PyNone ELSE PyTuple(parameters)
        built == IF in_type # NoInType THEN get_reply_variant(in_type, given)
                 ELSE [raised |-> "none", variant |-> NoneVariant]
    IN  IF built.raised # "none"
        THEN [raised |-> built.raised, transport |-> "none",
              parameters |-> NothingHanded]
        ELSE [raised |-> "none",
              transport |-> IF callback = "None" THEN "sync_call"
                            ELSE "async_call",
              parameters |-> IF in_type # NoInType
                             THEN Handed(built.variant, PyNone)
                             ELSE Handed(NoneVariant, PyNone)]

\* ClientObjectHandler._call_method(..., in_type, out_type, *parameters,
\* **kwargs): no arguments become None, a declared in_type makes a variant
\* of them, and the call goes to sync_call or, with a callback, to
\* async_call.
client_call_method(in_type, parameters, callback) ==
    LET given == IF parameters = <<>> THEN PyNone ELSE PyTuple(parameters)
        built == IF in_type # NoInType THEN get_reply_variant(in_type, given)
                 ELSE [raised |-> "none", variant |-> NoneVariant]
    IN  IF built.raised # "none"
        THEN [raised |-> built.raised, transport |-> "none",
              parameters |-> NothingHanded]
        ELSE [raised |-> "none",
              transport |-> IF callback = "None" THEN "sync_call"
                            ELSE "async_call",
              parameters |-> IF in_type # NoInType
                             THEN Handed(built.variant, PyNone)
                             ELSE Handed(NoneVariant, given)]

NoMarshal ==
    [called |-> FALSE, in_type |-> NoInType, supplied |-> <<>>,
     callback |-> "None", raised |-> "none", transport |-> "none",
     parameters |-> NothingHanded, before |-> <<>>, issued |-> <<>>]

InitMarshal == marshal = NoMarshal

\* proxy.Method(*parameters) or proxy.Method(*parameters, callback=..) of a
\* method with the input signature in_type.
CallMethod(in_type, parameters, callback) ==
    /\ LET r == client_call_method(in_type, parameters, callback)
       IN  marshal' =
             [called |-> TRUE, in_type |-> in_type, supplied |-> parameters,
              callback |-> callback, raised |-> r.raised,
              transport |-> r.transport, parameters |-> r.parameters,
              before |-> marshal.issued,
              issued |-> IF r.transport = "none"
                            \/ Len(marshal.issued) >= MaxIssued
                         THEN marshal.issued
                         ELSE Append(marshal.issued, r.transport)]
    /\ UNCHANGED notMarshalVars

NextMarshal ==
    \E in_type \in InTypes, parameters \in SuppliedParameters,
       callback \in SuppliedCallbacks :
          CallMethod(in_type, parameters, callback)

(***************************************************************************)
(* The connection of a MessageBus: the property connection, which creates  *)
(* the connection on demand and keeps it, check_connection and the reset   *)
(* of disconnect, on a bus that has nothing registered.                    *)
(***************************************************************************)

\* What _get_connection may do: return a new connection, return None, or
\* raise.
GetConnectionOutcomes == {"connection", "None", "IOError"}

\* The most connections _get_connection creates in a behaviour; connections
\* are numbered by their creation, and 0 stands for None.
MaxConnections == 3
NoConnection == 0

\* The property connection that asks _get_connection on every access.
connection_property_NeverCached(b, outcome) ==
    IF outcome = "IOError"
    THEN [raised |-> "IOError", value |-> NoConnection, asked |-> TRUE,
          bus |-> b]
    ELSE IF outcome = "None"
    THEN [raised |-> "none", value |-> NoConnection, asked |-> TRUE,
          bus |-> [b EXCEPT !._connection = NoConnection]]
    ELSE [raised |-> "none", value |-> b.created + 1, asked |-> TRUE,
          bus |-> [b EXCEPT !._connection = b.created + 1,
                            !.created = @ + 1]]

\* MessageBus.connection: if not self._connection, _get_connection is
\* called and what it returns is kept; self._connection is returned.
connection_property(b, outcome) ==
    IF b._connection # NoConnection
    THEN [raised |-> "none", value |-> b._connection, asked |-> FALSE,
          bus |-> b]
    ELSE IF outcome = "IOError"
    THEN [raised |-> "IOError", value |-> NoConnection, asked |-> TRUE,
          bus |-> b]
    ELSE IF outcome = "None"
    THEN [raised |-> "none", value |-> NoConnection, asked |-> TRUE,
          bus |-> [b EXCEPT !._connection = NoConnection]]
    ELSE [raised |-> "none", value |-> b.created + 1, asked |-> TRUE,
          bus |-> [b EXCEPT !._connection = b.created + 1,
                            !.created = @ + 1]]

\* AbstractMessageBus.check_connection: whether the connection is not
\* None; an exception of the property is logged and answered with False.
check_connection(b, outcome) ==
    LET c == connection_property(b, outcome)
    IN  IF c.raised # "none"
        THEN [raised |-> "none", value |-> FALSE, warned |-> TRUE,
              asked |-> c.asked, bus |-> c.bus]
        ELSE [raised |-> "none", value |-> c.value # NoConnection,
              warned |-> FALSE, asked |-> c.asked, bus |-> c.bus]

\* MessageBus.disconnect on a bus without registrations: the connection is
\* forgotten.
connection_disconnect(b) == [b EXCEPT !._connection = NoConnection]

NoConnecting ==
    [bus |-> [_connection |-> NoConnection, created |-> 0],
     op |-> "none", outcome |-> "None", before |-> NoConnection,
     raised |-> "none", value |-> NoConnection, check |-> FALSE,
     asked |-> FALSE, warned |-> FALSE, prev |-> "none"]

InitConnecting == connecting = NoConnecting

\* The outcomes _get_connection may have in a state: no more than
\* MaxConnections connections are created.
PossibleOutcomes ==
    IF connecting.bus.created < MaxConnections THEN GetConnectionOutcomes
    ELSE GetConnectionOutcomes \ {"connection"}

\* message_bus.connection
AccessConnection(outcome) ==
    /\ outcome \in PossibleOutcomes
    /\ LET c == connection_property(connecting.bus, outcome)
       IN  connecting' =
             [bus |-> c.bus, op |-> "connection", outcome |-> outcome,
              before |-> connecting.bus._connection, raised |-> c.raised,
              value |-> c.value, check |-> FALSE, asked |-> c.asked,
              warned |-> FALSE, prev |-> connecting.op]
    /\ UNCHANGED notConnectingVars

\* message_bus.check_connection()
CheckConnection(outcome) ==
    /\ outcome \in PossibleOutcomes
    /\ LET c == check_connection(connecting.bus, outcome)
       IN  connecting' =
             [bus |-> c.bus, op |-> "check_connection", outcome |-> outcome,
              before |-> connecting.bus._connection, raised |-> c.raised,
              value |-> c.bus._connection, check |-> c.value,
              asked |-> c.asked, warned |-> c.warned,
              prev |-> connecting.op]
    /\ UNCHANGED notConnectingVars

\* message_bus.disconnect()
ConnectionDisconnect ==
    /\ connecting' =
          [bus |-> connection_disconnect(connecting.bus),
           op |-> "disconnect", outcome |-> "None",
           before |-> connecting.bus._connection, raised |-> "none",
           value |-> NoConnection, check |-> FALSE, asked |-> FALSE,
           warned |-> FALSE, prev |-> connecting.op]
    /\ UNCHANGED notConnectingVars

NextConnecting ==
    \/ \E outcome \in GetConnectionOutcomes : AccessConnection(outcome)
    \/ \E outcome \in GetConnectionOutcomes : CheckConnection(outcome)
    \/ ConnectionDisconnect

(***************************************************************************)
(* Two threads and one ClientObjectHandler: the property specification     *)
(* read by create_member, step by step.  The property takes no lock, so    *)
(* the test of self._specification, the Introspect call, the assignment    *)
(* and the final read of one thread interleave with those of the other.    *)
(***************************************************************************)

\* The most calls of create_member a thread makes in a behaviour.
MaxThreadAccesses == 2

\* The handler has no specification: not self._specification.
NoSpecification == 0
specification_is_missing(handler) == handler._specification = NoSpecification

\* _get_specification: the Introspect call is issued by the thread, and its
\* reply is parsed into a new DBusSpecification object; objects are
\* numbered by their creation.
introspect(handler, thread) ==
    [handler EXCEPT !.introspections = @ + 1,
                    !.issued[thread] = @ + 1,
                    !.local[thread] = handler.introspections + 1]

\* An assignment that leaves the handler without the specification.
store_specification_Forgets(handler, thread) == handler

\* self._specification = <what _get_specification returned>.
store_specification(handler, thread) ==
    [handler EXCEPT !._specification = handler.local[thread]]

\* return self._specification, and the member is looked up in it.
return_specification(handler, thread) ==
    [handler EXCEPT
        !.used[thread] = handler._specification,
        !.first[thread] = IF @ = NoSpecification
                          THEN handler._specification ELSE @]

NewSharedHandler ==
    [_specification |-> NoSpecification, introspections |-> 0,
     pc |-> [t \in Threads |-> "idle"],
     accesses |-> [t \in Threads |-> 0],
     issued |-> [t \in Threads |-> 0],
     local |-> [t \in Threads |-> NoSpecification],
     used |-> [t \in Threads |-> NoSpecification],
     first |-> [t \in Threads |-> NoSpecification]]

InitSharing == sharing = NewSharedHandler

\* The thread calls create_member, which reads the property: the test
\* "if not self._specification".
BeginAccess(thread) ==
    /\ sharing.pc[thread] = "idle"
    /\ sharing.accesses[thread] < MaxThreadAccesses
    /\ sharing' =
          [sharing EXCEPT
              !.accesses[thread] = @ + 1,
              !.pc[thread] = IF specification_is_missing(sharing)
                             THEN "introspect" ELSE "return"]
    /\ UNCHANGED notSharingVars

\* The thread calls _get_specification and gets its reply.
Introspect(thread) ==
    /\ sharing.pc[thread] = "introspect"
    /\ sharing' = [introspect(sharing, thread) EXCEPT !.pc[thread] = "store"]
    /\ UNCHANGED notSharingVars

\* The thread assigns the specification to the handler.
StoreSpecification(thread) ==
    /\ sharing.pc[thread] = "store"
    /\ sharing' = [store_specification(sharing, thread)
                      EXCEPT !.pc[thread] = "return"]
    /\ UNCHANGED notSharingVars

\* The thread reads the specification back and makes the member from it.
ReturnSpecification(thread) ==
    /\ sharing.pc[thread] = "return"
    /\ sharing' = [return_specification(sharing, thread)
                      EXCEPT !.pc[thread] = "idle"]
    /\ UNCHANGED notSharingVars

NextSharing ==
    \/ \E thread \in Threads : BeginAccess(thread)
    \/ \E thread \in Threads : Introspect(thread)
    \/ \E thread \in Threads : StoreSpecification(thread)
    \/ \E thread \in Threads : ReturnSpecification(thread)

(***************************************************************************)
(* MessageBus.publish_object with the handler it makes: the object is      *)
(* registered on the connection and its signals are wired by               *)
(* connect_object, and only then is disconnect_object of the handler       *)
(* stored in the table of the bus.                                         *)
(***************************************************************************)

\* The most handlers publish_object makes in a behaviour.
MaxPublications == 3

\* The objects given to publish_object: an object without signals, objects
\* with the attributes of their signals, objects that miss the attribute
\* of their first or of their second signal, and an object whose
\* specification has no interface.
SignalObjects ==
    {[interfaces |-> 1, signals |-> 0, attrs |-> {}],
     [interfaces |-> 1, signals |-> 1, attrs |-> {"Signal1"}],
     [interfaces |-> 1, signals |-> 2, attrs |-> {"Signal1", "Signal2"}],
     [interfaces |-> 1, signals |-> 1, attrs |-> {}],
     [interfaces |-> 1, signals |-> 2, attrs |-> {"Signal1"}],
     [interfaces |-> 0, signals |-> 0, attrs |-> {}]}

\* The paths at which an object is registered on the connection.
RegisteredPaths(p) ==
    {p.handlers[i].path :
        i \in {j \in 1..Len(p.handlers) : p.handlers[j].o.registered # {}}}

\* publish_object that stores disconnect_object of the handler before it
\* connects the object.
publish_signal_object_StoresFirst(p, object_path, obj) ==
    LET c == IF object_path \in RegisteredPaths(p)
             THEN [raised |-> "GLib.Error", value |-> NewObjectHandler(obj)]
             ELSE connect_object(NewObjectHandler(obj))
        made == [p EXCEPT !.handlers =
                    Append(@, [path |-> object_path, o |-> c.value])]
        stored == [made EXCEPT !.table =
                      DictSet(@, object_path, Len(made.handlers))]
    IN  [raised |-> c.raised, value |-> stored]

\* MessageBus.publish_object: the handler is made and connect_object is
\* called (the connection refuses a path that has the interface
\* registered); if it returns, disconnect_object of the handler is stored
\* under the path.
publish_signal_object(p, object_path, obj) ==
    LET c == IF object_path \in RegisteredPaths(p)
             THEN [raised |-> "GLib.Error", value |-> NewObjectHandler(obj)]
             ELSE connect_object(NewObjectHandler(obj))
        made == [p EXCEPT !.handlers =
                    Append(@, [path |-> object_path, o |-> c.value])]
    IN  IF c.raised # "none" THEN [raised |-> c.raised, value |-> made]
        ELSE Returned([made EXCEPT !.table =
                          DictSet(@, object_path, Len(made.handlers))])

\* Calling a callback of the table: disconnect_object of the handler.
release_handler(p, handler) ==
    [p EXCEPT !.handlers[handler].o = disconnect_object(@)]

\* MessageBus._unregister for a published object.
unpublish_signal_object(p, object_path) ==
    IF DictIndex(p.table, object_path) = 0 THEN p
    ELSE release_handler(
            [p EXCEPT !.table = DictPop(@, object_path)],
            p.table[DictIndex(p.table, object_path)].value)

\* The loop of MessageBus.disconnect: popitem takes the last item.
RECURSIVE publication_disconnect(_)
publication_disconnect(p) ==
    IF p.table = <<>> THEN p
    ELSE publication_disconnect(release_handler(
            [p EXCEPT !.table = SubSeq(@, 1, Len(@) - 1)],
            p.table[Len(p.table)].value))

NoPublication ==
    [bus |-> [handlers |-> <<>>, table |-> <<>>],
     op |-> "none", raised |-> "none", prev |-> "none",
     prev_raised |-> "none", handler |-> 0]

InitPublication == publication = NoPublication

\* bus.publish_object(object_path, obj)
PublishSignalObject(object_path, obj) ==
    /\ Len(publication.bus.handlers) < MaxPublications
    /\ LET r == publish_signal_object(publication.bus, object_path, obj)
       IN  publication' =
             [bus |-> r.value, op |-> "publish_object", raised |-> r.raised,
              prev |-> publication.op, prev_raised |-> publication.raised,
              handler |-> Len(r.value.handlers)]
    /\ UNCHANGED notPublicationVars

\* bus.unpublish_object(object_path)
UnpublishSignalObject(object_path) ==
    /\ publication' =
          [bus |-> unpublish_signal_object(publication.bus, object_path),
           op |-> "unpublish_object", raised |-> "none",
           prev |-> publication.op, prev_raised |-> publication.raised,
           handler |-> publication.handler]
    /\ UNCHANGED notPublicationVars

\* bus.disconnect()
PublicationDisconnect ==
    /\ publication' =
          [bus |-> publication_disconnect(publication.bus),
           op |-> "disconnect", raised |-> "none",
           prev |-> publication.op, prev_raised |-> publication.raised,
           handler |-> publication.handler]
    /\ UNCHANGED notPublicationVars

NextPublication ==
    \/ \E object_path \in ObjectPaths, obj \in SignalObjects :
          PublishSignalObject(object_path, obj)
    \/ \E object_path \in ObjectPaths : UnpublishSignalObject(object_path)
    \/ PublicationDisconnect

Init ==
    /\ InitSignal
    /\ InitMapper
    /\ InitServer
    /\ InitClient
    /\ InitBus
    /\ InitObject
    /\ InitMembers
    /\ InitFds
    /\ InitProxy
    /\ InitPublished
    /\ InitReply
    /\ InitDispatch
    /\ InitTyping
    /\ InitMessage
    /\ InitCache
    /\ InitAccess
    /\ InitPublication
    /\ InitSharing
    /\ InitConnecting
    /\ InitMarshal
    /\ InitForward
    /\ InitValidation

\* A server handler created for one of the published objects.
InitWithObject ==
    /\ InitSignal
    /\ InitMapper
    /\ InitServer
    /\ InitClient
    /\ InitBus
    /\ InitPublishedObject
    /\ InitMembers
    /\ InitFds
    /\ InitProxy
    /\ InitPublished
    /\ InitReply
    /\ InitDispatch
    /\ InitTyping
    /\ InitMessage
    /\ InitCache
    /\ InitAccess
    /\ InitPublication
    /\ InitSharing
    /\ InitConnecting
    /\ InitMarshal
    /\ InitForward
    /\ InitValidation

\* A variant on its way through the handle swapping.
InitWithVariant ==
    /\ InitSignal
    /\ InitMapper
    /\ InitServer
    /\ InitClient
    /\ InitBus
    /\ InitObject
    /\ InitMembers
    /\ InitGivenVariant
    /\ InitProxy
    /\ InitPublished
    /\ InitReply
    /\ InitDispatch
    /\ InitTyping
    /\ InitMessage
    /\ InitCache
    /\ InitAccess
    /\ InitPublication
    /\ InitSharing
    /\ InitConnecting
    /\ InitMarshal
    /\ InitForward
    /\ InitValidation

\* A type hint on its way to get_dbus_type.
InitWithHint ==
    /\ InitSignal
    /\ InitMapper
    /\ InitServer
    /\ InitClient
    /\ InitBus
    /\ InitObject
    /\ InitMembers
    /\ InitFds
    /\ InitProxy
    /\ InitPublished
    /\ InitReply
    /\ InitDispatch
    /\ InitGivenHint
    /\ InitMessage
    /\ InitCache
    /\ InitAccess
    /\ InitPublication
    /\ InitSharing
    /\ InitConnecting
    /\ InitMarshal
    /\ InitForward
    /\ InitValidation

\* A client handler created with one of the error mappers.
InitWithMapper ==
    /\ InitSignal
    /\ InitServer
    /\ InitClient
    /\ InitBus
    /\ InitObject
    /\ InitMembers
    /\ InitFds
    /\ InitProxy
    /\ InitPublished
    /\ InitReply
    /\ InitDispatch
    /\ InitTyping
    /\ InitMessage
    /\ InitCache
    /\ InitAccess
    /\ InitPublication
    /\ InitSharing
    /\ InitConnecting
    /\ InitMarshal
    /\ InitForward
    /\ InitValidation
    /\ error_rules \in ClientMappers
    /\ mapLast = NoMapOp


SpecSignal == Init /\ [][NextSignal]_vars

(***************************************************************************)
(* Claims about Signal, checked under SpecSignal.                          *)
(***************************************************************************)

\* The callbacks invoked so far by the current or last emission, in order.
InvokedCallbacks == [i \in 1..Len(emission.log) |-> emission.log[i][1]]

\* The invocations an emission owes to the list cbs: each with the same args.
InvocationsOf(cbs, args) == [i \in 1..Len(cbs) |-> <<cbs[i], args>>]

\* C6: emit iterates over a snapshot.  At every moment of an emission the
\* callbacks invoked so far are a prefix of the list that was registered when
\* emit began, and when emit returns they are exactly that list: each
\* registration invoked once, in registration order, whatever the callbacks
\* connected or disconnected meanwhile.
C6_EmitIteratesSnapshot ==
    /\ IsPrefix(InvokedCallbacks, emission.registered)
    /\ emission.status = "done" => InvokedCallbacks = emission.registered

\* C6 witness: an emission over two or more callbacks has returned and the
\* callbacks, by disconnecting during it, left the list empty.
C6_Witness ==
    /\ emission.status = "done"
    /\ sigLast.op = "emit"
    /\ Len(emission.registered) >= 2
    /\ callbacks = <<>>
    /\ InvokedCallbacks = emission.registered

\* C7: emit(args) invokes exactly the callbacks registered when it is called,
\* each with args.  When the call before it was disconnect(cb), those are the
\* callbacks registered before the disconnect less one registration of cb;
\* when it was disconnect(), there are none; an emit on an empty list invokes
\* nothing and does not raise.
C7_EmitInvokesRegistered ==
    /\ (emission.status = "done" /\ sigLast.op = "emit") =>
          /\ emission.log = InvocationsOf(sigLast.pre, emission.args)
          /\ (sigLast.prevOp = "disconnect" /\ sigLast.prevCb = None) =>
                emission.log = <<>>
          /\ (sigLast.prevOp = "disconnect" /\ sigLast.prevCb # None) =>
                /\ Without(InvokedCallbacks, sigLast.prevCb)
                     = Without(sigLast.prevPre, sigLast.prevCb)
                /\ Count(InvokedCallbacks, sigLast.prevCb)
                     = IF sigLast.prevCb \in Elems(sigLast.prevPre)
                       THEN Count(sigLast.prevPre, sigLast.prevCb) - 1
                       ELSE 0
          /\ sigLast.prevOp = "connect" =>
                InvokedCallbacks = Append(sigLast.prevPre, sigLast.prevCb)
    /\ (sigLast.op = "emit" /\ sigLast.pre = <<>>) =>
          /\ emission.status \in {"running", "done"}
          /\ sigLast.raised = "none"
          /\ emission.log = <<>>

\* C7 witness: two callbacks were registered, one was disconnected, and the
\* emit that followed has returned after invoking the remaining one.
C7_Witness ==
    /\ emission.status = "done"
    /\ sigLast.op = "emit"
    /\ sigLast.prevOp = "disconnect"
    /\ sigLast.prevCb \in Callbacks
    /\ Len(sigLast.prevPre) = 2
    /\ Len(emission.log) = 1
    /\ emission.log[1][1] # sigLast.prevCb

\* C8: disconnect(cb) of a callback that is not registered raises nothing and
\* leaves the list of registered callbacks as it was.
C8_DisconnectAbsentIsNoOp ==
    (sigLast.op = "disconnect" /\ sigLast.cb # None
        /\ sigLast.cb \notin Elems(sigLast.pre)) =>
          /\ sigLast.raised = "none"
          /\ callbacks = sigLast.pre

\* C8 witness: disconnect(cb) was called on a non-empty list without cb.
C8_Witness ==
    /\ sigLast.op = "disconnect"
    /\ sigLast.cb \in Callbacks
    /\ sigLast.pre # <<>>
    /\ sigLast.cb \notin Elems(sigLast.pre)
    /\ callbacks = sigLast.pre

SpecMapper == Init /\ [][NextMapper]_vars

(***************************************************************************)
(* Claims about ErrorMapper, checked under SpecMapper.                     *)
(***************************************************************************)

\* The positions of the ErrorRule instances that match the exception type t.
RulesForType(t) ==
    {i \in 1..Len(error_rules) :
        error_rules[i].kind = "ErrorRule" /\ error_rules[i].type = t}

\* The positions of the ErrorRule instances that match the error name n.
RulesForName(n) ==
    {i \in 1..Len(error_rules) :
        error_rules[i].kind = "ErrorRule" /\ error_rules[i].name = n}

\* The largest member of a non-empty set of positions.
Latest(positions) == CHOOSE i \in positions : \A j \in positions : j <= i

\* C9: lookups return the most recently added matching rule.  A
\* get_error_name(E) that follows add_rule(ErrorRule(E, b)) returns b and a
\* get_exception_type(n) that follows add_rule(ErrorRule(E2, n)) returns E2,
\* whatever rules were added before; in every state each lookup answers with
\* the latest ErrorRule that matches.
C9_MostRecentRuleWins ==
    /\ (mapLast.op = "get_error_name" /\ mapLast.prevOp = "add_rule"
            /\ mapLast.type = mapLast.prevType) =>
          (mapLast.raised = "none" /\ mapLast.name = mapLast.prevName)
    /\ (mapLast.op = "get_exception_type" /\ mapLast.prevOp = "add_rule"
            /\ mapLast.name = mapLast.prevName) =>
          (mapLast.raised = "none" /\ mapLast.type = mapLast.prevType)
    /\ \A t \in LookupTypes : RulesForType(t) # {} =>
          get_error_name(error_rules, t).value
              = error_rules[Latest(RulesForType(t))].name
    /\ \A n \in LookupNames : RulesForName(n) # {} =>
          get_exception_type(error_rules, n).value
              = error_rules[Latest(RulesForName(n))].type

\* C9 witness: E was given the name a, then the name b, and the lookup of E
\* that followed returned b.
C9_Witness ==
    /\ mapLast.op = "get_error_name"
    /\ mapLast.prevOp = "add_rule"
    /\ mapLast.type = mapLast.prevType
    /\ mapLast.name = mapLast.prevName
    /\ \E i \in RulesForType(mapLast.type) :
          /\ i < Len(error_rules)
          /\ error_rules[i].name # mapLast.name

\* The string "not.known.Error." that starts every default error name.
DefaultPrefix ==
    <<"n", "o", "t", ".", "k", "n", "o", "w", "n", ".",
      "E", "r", "r", "o", "r", ".">>

\* C10: in every state of the mapper exactly one default rule is present, at
\* the lowest priority, so neither lookup raises LookupError: an exception
\* type without an ErrorRule maps to "not.known.Error.<class name>" and an
\* error name without an ErrorRule maps to DBusError.
C10_DefaultRuleAlwaysPresent ==
    /\ Cardinality({i \in 1..Len(error_rules) :
            error_rules[i].kind = "DefaultErrorRule"}) = 1
    /\ Len(error_rules) >= 1
    /\ error_rules[1].kind = "DefaultErrorRule"
    /\ mapLast.raised = "none"
    /\ \A t \in LookupTypes :
          /\ get_error_name(error_rules, t).raised = "none"
          /\ RulesForType(t) = {} =>
                get_error_name(error_rules, t).value
                    = DefaultPrefix \o ClassName(t)
    /\ \A n \in LookupNames :
          /\ get_exception_type(error_rules, n).raised = "none"
          /\ RulesForName(n) = {} =>
                get_exception_type(error_rules, n).value = "DBusError"
    /\ (mapLast.op = "get_error_name" /\ RulesForType(mapLast.type) = {}) =>
          mapLast.name = DefaultPrefix \o ClassName(mapLast.type)
    /\ (mapLast.op = "get_exception_type" /\ RulesForName(mapLast.name) = {}) =>
          mapLast.type = "DBusError"

\* C10 witness: rules were added on top of the default one and the lookup of
\* an exception type that none of them names returned the default name.
C10_Witness ==
    /\ mapLast.op = "get_error_name"
    /\ mapLast.type = "ExceptionC"
    /\ Len(error_rules) >= 3
    /\ mapLast.raised = "none"
    /\ mapLast.name = DefaultPrefix \o S_ExceptionC


SpecServer == Init /\ [][NextServer]_vars

SpecClientSync == InitWithMapper /\ [][NextClientSync]_vars

SpecClientAsync == InitWithMapper /\ [][NextClientAsync]_vars

(***************************************************************************)
(* Claims about the server handler, checked under SpecServer.              *)
(***************************************************************************)

\* How many times the method named do was called on the invocation.
Replies(do) ==
    Cardinality({i \in 1..Len(invocation.effects) :
        invocation.effects[i].do = do})

\* Every step of the incoming call ended normally.
CallSucceeds(call) ==
    /\ call.member \in ObjectAttributes
    /\ call.parameters # None
    /\ call.behaviour.do = "return"
    /\ \/ ServerOutType[call.member] = None
       \/ ServerOutType[call.member] = "(i)" /\ call.behaviour.value = "int"
       \/ ServerOutType[call.member] = "(ib)" /\ call.behaviour.value = "pair"

\* The handler of the incoming call is reached and raises an exception that
\* does not derive from Exception.
HandlerRaisesBaseException(call) ==
    /\ call.member \in ServerMembers
    /\ call.member \in ObjectAttributes
    /\ call.parameters # None
    /\ call.behaviour.do = "raise"
    /\ ~IsException(call.behaviour.type)

\* C1 as stated: every incoming call is answered exactly once, whatever is
\* raised by the member lookup, the handler or the marshalling of the reply:
\* return_value and return_dbus_error are called once between them.
C1_ExactlyOneReplyWhateverRaises ==
    invocation.called =>
        Replies("return_value") + Replies("return_dbus_error") = 1

\* C1: every incoming call in which no step raises an exception outside
\* Exception is answered exactly once.  Whether the handler returned or the
\* member lookup, the handler or the marshalling of the reply raised,
\* return_value and return_dbus_error were called once between them, nothing
\* escaped, and the reply is a value exactly when every step ended normally.
\* When the handler raises an exception that derives from BaseException only,
\* the exception escapes and no reply is sent.
C1_ExactlyOneReply ==
    invocation.called =>
        /\ ~HandlerRaisesBaseException(invocation.call) =>
              /\ Replies("return_value") + Replies("return_dbus_error") = 1
              /\ invocation.escaped = "none"
              /\ Replies("return_value") = 1
                    <=> CallSucceeds(invocation.call)
        /\ HandlerRaisesBaseException(invocation.call) =>
              /\ Replies("return_value") + Replies("return_dbus_error") = 0
              /\ invocation.escaped = invocation.call.behaviour.type

\* C1 witness: the handler returned a value that cannot be marshalled, with a
\* rule added to the mapper, and the call was answered with one error.
C1_Witness ==
    /\ invocation.called
    /\ invocation.call.member = "Method3"
    /\ invocation.call.parameters # None
    /\ invocation.call.behaviour.do = "return"
    /\ invocation.call.behaviour.value = "overflow"
    /\ Len(error_rules) >= 2
    /\ Replies("return_dbus_error") = 1
    /\ Replies("return_value") = 0

(***************************************************************************)
(* Claims about the client handler.                                        *)
(***************************************************************************)

\* The remote error names and messages of the model.
RemoteNames == {NameA, NameC}

\* What a caller is owed for the error e of a call: for the remote error
\* named n with the message t a new exception of the mapped class with the
\* message t and dbus_name n; for any other error, e itself.
IsTranslationOf(raised, e) ==
    /\ \A n \in RemoteNames, t \in RemoteTexts : e = RemoteError(n, t) =>
          /\ raised.origin = "handler"
          /\ raised.cls = get_exception_type(error_rules, n).value
          /\ raised.message = t
          /\ raised.dbus_name = n
    /\ ~(e.cls = "GLib.Error" /\ e.remote) => raised = e

\* C2: a call that fails with the remote error named N raises a newly built
\* exception of the class error_mapper.get_exception_type(N), whose message
\* is the remote message and whose dbus_name is N.
C2_RemoteErrorIsMapped ==
    (clientLast.op = "sync" /\ clientLast.sent) =>
        \A n \in RemoteNames, t \in RemoteTexts :
            clientLast.outcome.error = RemoteError(n, t) =>
                /\ clientLast.reply.error.origin = "handler"
                /\ clientLast.reply.error.cls
                     = get_exception_type(error_rules, n).value
                /\ clientLast.reply.error.cls
                     = IF RulesForName(n) = {} THEN "DBusError"
                       ELSE error_rules[Latest(RulesForName(n))].type
                /\ clientLast.reply.error.message = t
                /\ clientLast.reply.error.dbus_name = n

\* C2 witness: a call failed with the remote error "my.A", for which the
\* mapper has two rules, and raised the exception of the later rule.
C2_Witness ==
    /\ clientLast.op = "sync"
    /\ clientLast.outcome.error = RemoteError(NameA, S_Failed)
    /\ Cardinality(RulesForName(NameA)) = 2
    /\ clientLast.reply.error.cls = "ExceptionB"
    /\ clientLast.reply.error.message = S_Failed
    /\ clientLast.reply.error.dbus_name = NameA

\* C3: a call that fails with an error that is not a remote DBus error (a
\* timeout, another local exception) raises that same error and never asks
\* the error mapper.
C3_LocalErrorIsReraised ==
    (clientLast.op = "sync" /\ clientLast.sent
        /\ clientLast.outcome.error # NoError
        /\ ~(clientLast.outcome.error.cls = "GLib.Error"
                /\ clientLast.outcome.error.remote)) =>
          /\ clientLast.reply.error = clientLast.outcome.error
          /\ clientLast.reply.lookups = 0

\* C3 witness: a call timed out on a handler whose mapper has rules, and the
\* timeout was raised as it was.
C3_Witness ==
    /\ clientLast.op = "sync"
    /\ clientLast.outcome.error = TimeoutError
    /\ Len(error_rules) >= 2
    /\ clientLast.reply.error = TimeoutError
    /\ clientLast.reply.lookups = 0

\* C4: an asynchronous call returns without raising and before the call has
\* an outcome; when the call ends the callback of the user is invoked once,
\* with a getter and then the callback arguments, and nothing is raised by
\* the delivery; the result or the error of the call, translated as for a
\* synchronous call, appears only when the getter is invoked.
C4_AsyncErrorOnlyFromGetter ==
    /\ (clientLast.op = "async" /\ clientLast.sent) =>
          (clientLast.raised = "none" /\ clientLast.outcome = NoOutcome)
    /\ \A c \in 1..Len(calls) :
          /\ calls[c].state = "pending" =>
                (calls[c].delivered = <<>> /\ calls[c].got = NoReply)
          /\ calls[c].state # "pending" =>
                /\ Len(calls[c].delivered) = 1
                /\ calls[c].delivered[1].getter.reply
                /\ calls[c].delivered[1].args
                     = calls[c].supplied.callback_args
                /\ calls[c].delivered[1].raised = NoError
          /\ calls[c].state = "delivered" => calls[c].got = NoReply
          /\ calls[c].state = "got" =>
                /\ calls[c].got.error = NoError
                     <=> calls[c].outcome.error = NoError
                /\ calls[c].outcome.error # NoError =>
                     IsTranslationOf(calls[c].got.error,
                                     calls[c].outcome.error)

\* C4 witness: a call ended in a remote error, its callback was delivered
\* without an exception, and the getter raised the mapped exception.
C4_Witness ==
    \E c \in 1..Len(calls) :
        /\ calls[c].state = "got"
        /\ calls[c].outcome.error = RemoteError(NameA, S_Failed)
        /\ calls[c].delivered[1].raised = NoError
        /\ calls[c].got.error.cls = "ExceptionA"
        /\ calls[c].got.error.dbus_name = NameA

\* C5: whatever the order in which the calls in flight end, the callback and
\* the callback arguments delivered for a call are those supplied with it,
\* and the getter delivered for it yields the outcome of that same call.
C5_ResultsReachTheirOwnCallback ==
    \A c \in 1..Len(calls) : \A i \in 1..Len(calls[c].delivered) :
        /\ calls[c].delivered[i].callback = calls[c].supplied.callback
        /\ calls[c].delivered[i].args = calls[c].supplied.callback_args
        /\ calls[c].delivered[i].getter.finish.call = c
        /\ call_finish(calls[c].delivered[i].getter.finish)
             = calls[c].outcome
        /\ (calls[c].state = "got" /\ calls[c].outcome.error = NoError) =>
              calls[c].got.v = HelloReply(calls[c].supplied.parameters[1])

\* C5 witness: of two calls with different parameters and callbacks the
\* second ended first and its getter gave the reply to its own parameter,
\* while the first is still in flight.
C5_Witness ==
    /\ Len(calls) = 2
    /\ calls[1].state = "pending"
    /\ calls[1].supplied.parameters = <<"Foo">>
    /\ calls[2].supplied.parameters = <<"Bar">>
    /\ calls[2].state = "got"
    /\ calls[2].delivered[1].callback = "callback2"
    /\ calls[2].got.v = HelloReply("Bar")

(***************************************************************************)
(* Claims about MessageBus, checked under SpecBus.                         *)
(***************************************************************************)

SpecBus == Init /\ [][NextBus]_vars

\* C11: once disconnect() has returned, the release callback of every
\* registration made by a successful publish_object or register_service has
\* been invoked exactly once (by disconnect, or before it by unpublish_object
\* or unregister_service), the registration table is empty, the connection
\* is reset and the requested names are empty; a disconnect() that follows a
\* disconnect() invokes nothing.
C11_DisconnectReleasesEveryRegistration ==
    busLast.op = "disconnect" =>
        /\ \A i \in 1..Len(bus.made) : Count(bus.log, bus.made[i]) = 1
        /\ bus.registrations = <<>>
        /\ ~bus.connection
        /\ bus.requested_names = {}
        /\ busLast.prevOp = "disconnect" => Len(bus.log) = busLast.logLen

(***************************************************************************)
(* Claims about connect_object and disconnect_object, under SpecObject.    *)
(***************************************************************************)

SpecObject == InitWithObject /\ [][NextObject]_vars

\* The teardowns a successful connect_object records on a handler whose
\* serial is n: the unregistering callback, then one disconnecting partial
\* for each signal in the order of the specification.
RecordedBy(o, n) ==
    <<UnregisterTeardown(n + 1)>>
        \o [i \in 1..o.signals |-> SignalTeardown(n + 1 + i, SignalMembers[i])]

\* C12: disconnect_object calls every teardown that connect_object recorded
\* exactly once and in the reverse order of their creation, and afterwards
\* the list of the handler is empty.  After one successful connect_object
\* the signals are disconnected last-connected-first and the object is
\* unregistered last, no emitter stays connected and nothing stays
\* registered on the connection.
C12_DisconnectObjectReversesConnect ==
    objLast.op = "disconnect_object" =>
        /\ object.log = Reverse(objLast.pre.registrations)
        /\ \A i \in 1..Len(objLast.pre.registrations) :
              Count(object.log, objLast.pre.registrations[i]) = 1
        /\ object.registrations = <<>>
        /\ (objLast.prevOp = "connect_object"
                /\ objLast.pre.connects = 1
                /\ Len(objLast.pre.registrations) = 1 + objLast.pre.signals) =>
              /\ object.log = Reverse(RecordedBy(objLast.pre, 0))
              /\ object.log[Len(object.log)].kind = "unregister_object"
              /\ object.registered = {}
              /\ \A n \in SignalNames : object.callbacks[n] = <<>>

\* C12 witness: an object with two signals was connected and disconnected;
\* Signal2 was disconnected first, Signal1 next and the object unregistered
\* last.
C12_Witness ==
    /\ objLast.op = "disconnect_object"
    /\ objLast.prevOp = "connect_object"
    /\ Len(object.log) = 3
    /\ object.log[1].signal = "Signal2"
    /\ object.log[2].signal = "Signal1"
    /\ object.log[3].kind = "unregister_object"
    /\ object.registrations = <<>>

\* C13: disconnect_object on a handler that was never connected, or again
\* after a disconnect_object, calls no unregister and no signal disconnect,
\* raises nothing and changes nothing.
C13_DisconnectObjectIdempotent ==
    (objLast.op = "disconnect_object"
        /\ objLast.prevOp \in {"none", "disconnect_object"}) =>
          /\ object.log = <<>>
          /\ objLast.raised = "none"
          /\ object.registered = objLast.pre.registered
          /\ object.callbacks = objLast.pre.callbacks
          /\ object.registrations = <<>>

\* C13 witness: a connected handler was disconnected twice and the second
\* disconnect_object called nothing.
C13_Witness ==
    /\ objLast.op = "disconnect_object"
    /\ objLast.prevOp = "disconnect_object"
    /\ object.connects >= 1
    /\ object.serial >= 2
    /\ object.log = <<>>

(***************************************************************************)
(* Claims about the signal proxies of the client, under SpecMembers.       *)
(***************************************************************************)

SpecMembers == Init /\ [][NextMembers]_vars

\* C14: after disconnect_members every signal proxy the handler created has
\* been unsubscribed on the bus exactly once, and every proxy that was
\* subscribed until then has no local callbacks; a delivery to a proxy never
\* invokes a callback that was connected before the disconnect_members that
\* unsubscribed the proxy; a second disconnect_members changes nothing.
C14_DisconnectMembersSilencesSignals ==
    /\ membersLast.op = "disconnect_members" =>
          /\ \A i \in 1..Len(members.signals) :
                /\ members.signals[i].unsubscribed = 1
                /\ i \in membersLast.pre.active =>
                      members.signals[i].callbacks = <<>>
          /\ members.active = {}
          /\ members.subscriptions = <<>>
          /\ membersLast.prevOp = "disconnect_members" =>
                [members EXCEPT !.epoch = 0]
                    = [membersLast.pre EXCEPT !.epoch = 0]
    /\ \A i \in 1..Len(members.signals) :
          /\ members.signals[i].unsubscribed <= 1
          /\ members.signals[i].unsubscribed = 1 <=> i \notin members.active
    /\ membersLast.op = "deliver" =>
          \A k \in 1..Len(members.log) :
              members.log[k].epoch >= members.signals[membersLast.signal].torn

\* C14 witness: a signal was queued for a proxy with a callback, the members
\* were disconnected, and the delivery that followed invoked nothing.
C14_Witness ==
    /\ membersLast.op = "deliver"
    /\ membersLast.prevOp = "disconnect_members"
    /\ members.signals[membersLast.signal].connected = 1
    /\ members.signals[membersLast.signal].unsubscribed = 1
    /\ members.log = <<>>

(***************************************************************************)
(* Unix file descriptors in variants.                                      *)
(***************************************************************************)
SpecFds == InitWithVariant /\ [][NextFds]_vars

RECURSIVE HandleLeaves(_, _), LeavesOfItems(_, _, _)
\* The values of type 'h' of a value, in the order of the traversal: the
\* members of a tuple and the elements of an array in sequence, the key of
\* a dictionary entry before its value.
HandleLeaves(type_string, value) ==
    IF type_string = <<"h">> THEN <<value.n>>
    ELSE IF type_string[1] \in {"(", "{"}
    THEN LeavesOfItems(split_signature(type_string), value.items, 1)
    ELSE IF type_string[1] = "a"
    THEN LeavesOfItems([i \in 1..Len(value.items) |-> Tail(type_string)],
                       value.items, 1)
    ELSE IF type_string[1] = "v" THEN HandleLeaves(value.t, value.items[1])
    ELSE <<>>

LeavesOfItems(types, items, i) ==
    IF i > Len(items) THEN <<>>
    ELSE HandleLeaves(types[i], items[i]) \o LeavesOfItems(types, items, i + 1)

RECURSIVE Blank(_, _)
\* A value with 0 in the place of every value of type 'h'.
Blank(type_string, value) ==
    IF type_string = <<"h">> THEN PyInt(0)
    ELSE IF type_string[1] \in {"(", "{"}
    THEN [value EXCEPT !.items =
            [i \in 1..Len(value.items) |->
                Blank(split_signature(type_string)[i], value.items[i])]]
    ELSE IF type_string[1] = "a"
    THEN [value EXCEPT !.items =
            [i \in 1..Len(value.items) |->
                Blank(Tail(type_string), value.items[i])]]
    ELSE IF type_string[1] = "v"
    THEN PyVariant(value.t, Blank(value.t, value.items[1]))
    ELSE value

LeavesOf(variant) ==
    IF variant = NoneVariant THEN <<>> ELSE HandleLeaves(variant.t, variant.value)
BlankOf(variant) ==
    IF variant = NoneVariant THEN PyInt(0) ELSE Blank(variant.t, variant.value)
SameVariant(a, b) == a.t = b.t /\ a.value = b.value
Positions(n) == [k \in 1..n |-> k - 1]

\* C15: restoring the handles in the variant that the acquisition returned,
\* with the list that it returned, gives a variant equal to the one that
\* was acquired, every handle in its place; the same holds of the two
\* functions of dasbus/typing.py.
C15_HandleRoundTrip ==
    /\ fds.op = "restore_fds" => SameVariant(fds.variant, fds.origin)
    /\ fds.op = "replace_indices" =>
          fds.raised = "none" /\ SameVariant(fds.variant, fds.origin)

\* The nested dictionary a{saa{sv}} with two boxed handles went through
\* acquire_fds and restore_fds.
C15_Witness ==
    /\ fds.op = "restore_fds"
    /\ fds.origin.t = <<"a", "{", "s", "a", "a", "{", "s", "v", "}", "}">>
    /\ LeavesOf(fds.origin) = <<7, 9>>
    /\ LeavesOf(fds.given) = <<0, 1>>
    /\ fds.list = UnixFDList(<<7, 9>>)

\* C16: the acquisition visits the values of type 'h' in the order of the
\* traversal; the k-th one (from 0) has its descriptor at position k of the
\* list and k in its place, nothing else changes, and the list is as long
\* as there are such values, a descriptor that occurs twice included.
C16_IndexesInTraversalOrder ==
    (fds.op \in {"acquire_fds", "replace_handles"} /\ fds.origin # NoneVariant) =>
        /\ fds.fd_list.fds = LeavesOf(fds.origin)
        /\ fds.variant.t = fds.origin.t
        /\ LeavesOf(fds.variant) = Positions(Len(LeavesOf(fds.origin)))
        /\ BlankOf(fds.variant) = BlankOf(fds.origin)

\* acquire_fds was called on a tuple that holds the same descriptor twice.
C16_Witness ==
    /\ fds.op = "acquire_fds"
    /\ LeavesOf(fds.origin) = <<7, 7>>
    /\ fds.fd_list = UnixFDList(<<7, 7>>)
    /\ LeavesOf(fds.variant) = <<0, 1>>

\* C17: acquire_fds on a variant without a value of type 'h', one whose
\* type names 'v' included, returns that very variant object and no list;
\* acquire_fds(None) returns (None, None).
C17_NoHandleFastPath ==
    (fds.op = "acquire_fds"
     /\ (fds.origin = NoneVariant \/ LeavesOf(fds.origin) = <<>>)) =>
        /\ fds.variant = fds.origin
        /\ fds.fd_list = NoFdList

\* acquire_fds was called on a tuple that boxes an integer.
C17_Witness ==
    /\ fds.op = "acquire_fds"
    /\ fds.origin.t = <<"(", "v", ")">>
    /\ fds.variant.obj = "given"
    /\ fds.fd_list.none

\* C18: restore_fds with a list of descriptors puts -1 in the place of every
\* value of type 'h' whose index is not a position of the list, an empty
\* list included.
C18_BadIndexBecomesMinusOne ==
    (fds.op = "_object_callback" /\ ~fds.list.none) =>
        /\ Len(LeavesOf(fds.variant)) = Len(LeavesOf(fds.given))
        /\ \A k \in 1..Len(LeavesOf(fds.given)) :
              LeavesOf(fds.given)[k] \notin 0..(Len(fds.list.fds) - 1)
                  => LeavesOf(fds.variant)[k] = -1

(***************************************************************************)
(* Property proxies of the client.                                         *)
(***************************************************************************)
SpecProxy == Init /\ [][NextProxy]_vars

\* C19: reading a property that is not readable raises an error with the
\* message "Can't read DBus property.", writing one that is not writable
\* raises "Can't set DBus property.", and in both cases no call of
\* Properties.Get or Properties.Set reaches the bus.
C19_UnreadableUnwritableRaiseWithoutCall ==
    /\ (proxyLast.op = "get" /\ ~proxyLast.spec.readable) =>
          /\ proxyLast.raised = "AttributeError"
          /\ proxyLast.message = "Can't read DBus property."
          /\ remote = proxyLast.pre
    /\ (proxyLast.op = "set" /\ ~proxyLast.spec.writable) =>
          /\ proxyLast.raised = "AttributeError"
          /\ proxyLast.message = "Can't set DBus property."
          /\ remote = proxyLast.pre

\* The read-only Name was written after a call had reached the bus.
C19_Witness ==
    /\ proxyLast.op = "set"
    /\ proxyLast.spec.name = "Name"
    /\ proxyLast.raised = "AttributeError"
    /\ Len(remote.calls) > 0

(***************************************************************************)
(* The default property handlers of the server.                            *)
(***************************************************************************)
SpecPublished == Init /\ [][NextPublished]_vars

\* The invocation got one reply and it is an error.
ErrorReply(effects) ==
    /\ \E i \in 1..Len(effects) : effects[i].do = "return_dbus_error"
    /\ \A i \in 1..Len(effects) : effects[i].do # "return_value"

NotReadable(name) ==
    \E spec \in ServerPropertySpecs : spec.name = name /\ ~spec.readable
NotWritable(name) ==
    \E spec \in ServerPropertySpecs : spec.name = name /\ ~spec.writable

\* C20: Properties.Get on a property that is not readable and
\* Properties.Set on one that is not writable end in an error reply, and
\* the refused Set leaves the attributes of the published object as they
\* were.
C20_RefusedAccessIsErrorReply ==
    /\ (publishedLast.op = "Get" /\ NotReadable(publishedLast.property)) =>
          ErrorReply(publishedLast.effects) /\ published = publishedLast.pre
    /\ (publishedLast.op = "Set" /\ NotWritable(publishedLast.property)) =>
          ErrorReply(publishedLast.effects) /\ published = publishedLast.pre

\* Set of the read-only Property2 with a value other than the one it has.
C20_Witness ==
    /\ publishedLast.op = "Set"
    /\ publishedLast.property = "Property2"
    /\ publishedLast.value # publishedLast.pre["Property2"]
    /\ publishedLast.message = "The property Interface.Property2 is not writable."
    /\ ErrorReply(publishedLast.effects)

(***************************************************************************)
(* The reply of a method call.                                             *)
(***************************************************************************)
SpecReply == Init /\ [][NextReply]_vars

\* C21: with no output signature the reply carries no value; with an
\* output signature of exactly one item the returned value r is sent as the
\* tuple of one item (r,), also when r is a tuple; with an output signature
\* of more items the returned tuple is sent as it is.
C21_ReplyValueFollowsOutType ==
    reply.stage = "sent" =>
        /\ reply.out_type = NoOutType =>
              reply.raised = "none" /\ reply.variant = NoneVariant
        /\ (reply.out_type # NoOutType /\ type_is_tuple_of_one(reply.out_type)) =>
              /\ reply.raised = "none" <=>
                    Fits(split_signature(reply.out_type)[1], reply.out_value)
              /\ reply.raised = "none" =>
                    /\ reply.variant.t = reply.out_type
                    /\ reply.variant.value = PyTuple(<<reply.out_value>>)
        /\ (reply.out_type # NoOutType /\ ~type_is_tuple_of_one(reply.out_type)) =>
              /\ reply.raised = "none" <=> Fits(reply.out_type, reply.out_value)
              /\ reply.raised = "none" =>
                    /\ reply.variant.t = reply.out_type
                    /\ reply.variant.value = reply.out_value

\* A handler with the output signature ((is)) returned a tuple, and the
\* reply holds that tuple as its one item.
C21_Witness ==
    /\ reply.stage = "sent"
    /\ reply.out_type = <<"(", "(", "i", "s", ")", ")">>
    /\ reply.out_value = PyTuple(<<PyInt(1), PyStr("a")>>)
    /\ reply.raised = "none"
    /\ reply.variant.value = PyTuple(<<PyTuple(<<PyInt(1), PyStr("a")>>)>>)

\* C22: the client returns None for a reply without values, the value
\* itself for a reply of one value, a falsy one included, and the tuple of
\* the values in their order for a reply of more values.
C22_ResultFollowsNumberOfValues ==
    reply.stage = "received" =>
        LET values == ReceivedReply(reply.variant).value.items
        IN /\ Len(values) = 0 => reply.result = PyNone
           /\ Len(values) = 1 => reply.result = values[1]
           /\ Len(values) > 1 => reply.result = PyTuple(values)

\* The reply of one value 0 was received as 0.
C22_Witness ==
    /\ reply.stage = "received"
    /\ reply.variant.t = <<"(", "i", ")">>
    /\ reply.variant.value = PyTuple(<<PyInt(0)>>)
    /\ reply.result = PyInt(0)

(***************************************************************************)
(* The dispatch of an incoming call.                                       *)
(***************************************************************************)
SpecDispatch == Init /\ [][NextDispatch]_vars

\* C23: call_info is passed to a handler if and only if the handler is
\* marked as accepting additional arguments; every handler is called with
\* exactly the unwrapped parameters of the call as positional arguments.
C23_CallInfoOnlyForMarkedHandlers ==
    (dispatch.called /\ dispatch.raised = "none") =>
        /\ dispatch.args = dispatch.parameters
        /\ dispatch.handler.accepts => dispatch.kwargs = {"call_info"}
        /\ ~dispatch.handler.accepts => dispatch.kwargs = {}

\* A marked handler of the object was called with one parameter and
\* call_info.
C23_Witness ==
    /\ dispatch.called
    /\ dispatch.handler.kind = "handler"
    /\ dispatch.handler.accepts
    /\ dispatch.args = <<1>>
    /\ dispatch.kwargs = {"call_info"}

\* C24 as stated: the handler is the attribute of the object whenever the
\* object has an attribute of that name.
C24_ObjectAttributeWheneverPresent ==
    (dispatch.called /\ dispatch.attribute.kind # "absent") =>
        dispatch.raised = "none" /\ dispatch.handler = dispatch.attribute

\* C24: the handler is the attribute of the published object named after
\* the member whenever that attribute is true in a test; a default handler
\* of org.freedesktop.DBus.Properties is used only when the object has no
\* such attribute or a false one; when there is neither, the call ends in
\* an error reply.
C24_HandlerResolutionOrder ==
    dispatch.called =>
        /\ IsTruthy(dispatch.attribute) =>
              dispatch.raised = "none" /\ dispatch.handler = dispatch.attribute
        /\ (dispatch.raised = "none" /\ dispatch.handler.kind = "default") =>
              /\ ~IsTruthy(dispatch.attribute)
              /\ dispatch.interface_name = "org.freedesktop.DBus.Properties"
              /\ dispatch.handler.name =
                    find_default_handler(dispatch.interface_name, dispatch.member)
        /\ (~IsTruthy(dispatch.attribute)
            /\ find_default_handler(dispatch.interface_name, dispatch.member) = None) =>
              /\ dispatch.raised = "AttributeError"
              /\ \E i \in 1..Len(dispatch.effects) :
                    dispatch.effects[i].do = "return_dbus_error"

\* The object has its own handler named Get and a call of Properties.Get
\* reached it.
C24_Witness ==
    /\ dispatch.called
    /\ dispatch.interface_name = "org.freedesktop.DBus.Properties"
    /\ dispatch.member = "Get"
    /\ dispatch.attribute.kind = "handler"
    /\ dispatch.handler = dispatch.attribute

SpecTypes == InitWithHint /\ [][NextTyping]_vars

\* A dictionary somewhere in the type hint has a key that is a container or
\* a variant.
RECURSIVE HasRefusedKey(_)
HasRefusedKey(type_hint) ==
    \/ /\ type_hint.base = "Dict"
       /\ type_hint.args[1].base \in {"Tuple", "List", "Dict", "Variant"}
    \/ \E i \in 1..Len(type_hint.args) : HasRefusedKey(type_hint.args[i])

\* The type hint is built of the basic types and of tuples, lists and
\* dictionaries with keys of basic types other than the variant.
RECURSIVE IsDescriptor(_)
IsDescriptor(type_hint) ==
    IF type_hint.args = <<>>
    THEN type_hint.base \in DOMAIN _basic_type_mapping
    ELSE /\ type_hint.base \in {"Tuple", "List", "Dict"}
         /\ type_hint.base = "List" => Len(type_hint.args) = 1
         /\ type_hint.base = "Dict" => Len(type_hint.args) = 2
         /\ ~HasRefusedKey(type_hint)
         /\ \A i \in 1..Len(type_hint.args) : IsDescriptor(type_hint.args[i])

DictOfStrToInt == Hint("Dict", <<Hint("Str", <<>>), Hint("Int", <<>>)>>)

\* C25: get_dbus_type raises TypeError and gives no signature for a type
\* hint with a dictionary, at any depth of nesting, whose key is a tuple, a
\* list, a dictionary or a variant; a dictionary with a basic key other than
\* the variant is translated, Dict[Str, Int] to "a{si}".
C25_ContainerAndVariantKeysRefused ==
    typing.called =>
        /\ HasRefusedKey(typing.type_hint) =>
                /\ typing.result.raised = "TypeError"
                /\ typing.result.value = <<>>
        /\ (typing.type_hint.base = "Dict" /\ IsDescriptor(typing.type_hint)) =>
                typing.result.raised = "none"
        /\ typing.type_hint = DictOfStrToInt =>
                typing.result = Signature(<<"a", "{", "s", "i", "}">>)

\* A dictionary with a variant key, two containers deep, was refused.
C25_Witness ==
    /\ typing.called
    /\ typing.type_hint =
           Hint("List", <<Hint("Tuple", <<Hint("Dict",
                <<Hint("Variant", <<>>), Hint("Int", <<>>)>>)>>)>>)
    /\ typing.result = InvalidKey(Hint("Variant", <<>>))

\* The signature of a type hint by its structure.
RECURSIVE StructuralSignature(_)
StructuralSignature(type_hint) ==
    LET of(i) == StructuralSignature(type_hint.args[i])
    IN  CASE type_hint.base = "Tuple" ->
                <<"(">> \o (IF Len(type_hint.args) = 1 THEN of(1)
                            ELSE of(1) \o of(2)) \o <<")">>
          [] type_hint.base = "List" -> <<"a">> \o of(1)
          [] type_hint.base = "Dict" -> <<"a", "{">> \o of(1) \o of(2) \o <<"}">>
          [] OTHER ->
                <<CASE type_hint.base = "Bool" -> "b"
                    [] type_hint.base = "Str" -> "s"
                    [] type_hint.base = "Double" -> "d"
                    [] type_hint.base \in {"Int", "Int32"} -> "i"
                    [] type_hint.base = "Byte" -> "y"
                    [] type_hint.base = "Int16" -> "n"
                    [] type_hint.base = "UInt16" -> "q"
                    [] type_hint.base = "UInt32" -> "u"
                    [] type_hint.base = "Int64" -> "x"
                    [] type_hint.base = "UInt64" -> "t"
                    [] type_hint.base = "UnixFD" -> "h"
                    [] type_hint.base = "ObjPath" -> "o"
                    [] type_hint.base = "Variant" -> "v">>

\* The grammar of the signatures: the codes of the basic types, the
\* variant, a tuple of types in parentheses, an array of a type and an
\* array of dictionary entries with a basic key.
BasicCodes ==
    {"b", "y", "n", "q", "i", "u", "x", "t", "h", "d", "s", "o", "g"}

\* The position after the complete type that starts at the position, or 0.
RECURSIVE SignatureEnd(_, _, _)
SignatureEnd(signature, position, inTuple) ==
    LET char == signature[position]
        next == SignatureEnd(signature, position + 1, FALSE)
        value == SignatureEnd(signature, position + 3, FALSE)
        item == SignatureEnd(signature, position, FALSE)
    IN  IF position > Len(signature) THEN 0
        ELSE IF inTuple
        THEN IF char = ")" THEN position + 1
             ELSE IF item = 0 THEN 0
             ELSE SignatureEnd(signature, item, TRUE)
        ELSE IF char \in BasicCodes \cup {"v"} THEN position + 1
        ELSE IF char = "(" THEN SignatureEnd(signature, position + 1, TRUE)
        ELSE IF char # "a" \/ position + 1 > Len(signature) THEN 0
        ELSE IF signature[position + 1] # "{" THEN next
        ELSE IF position + 2 > Len(signature) THEN 0
        ELSE IF signature[position + 2] \notin BasicCodes THEN 0
        ELSE IF value = 0 \/ value > Len(signature) THEN 0
        ELSE IF signature[value] = "}" THEN value + 1 ELSE 0

string_is_valid(signature) ==
    SignatureEnd(signature, 1, FALSE) = Len(signature) + 1

\* C26: for a type hint built of the basic types and of parametrized
\* tuples, lists and dictionaries with basic keys other than the variant,
\* get_dbus_type returns the signature given by the structure of the hint,
\* and the signature is one of the grammar of the signatures.
C26_SignatureFollowsStructure ==
    (typing.called /\ IsDescriptor(typing.type_hint)) =>
        /\ typing.result = Signature(StructuralSignature(typing.type_hint))
        /\ string_is_valid(typing.result.value)

\* A dictionary of tuples of lists was translated.
C26_Witness ==
    /\ typing.called
    /\ typing.type_hint =
           Hint("Dict", <<Hint("Str", <<>>), Hint("Tuple",
                <<Hint("Int", <<>>), Hint("List", <<Hint("Variant", <<>>)>>)>>)>>)
    /\ typing.result =
           Signature(<<"a", "{", "s", "(", "i", "a", "v", ")", "}">>)

SpecMessage == Init /\ [][NextMessage]_vars

\* C27: get_remote_error_message removes "GDBus.Error:<name>: " from the
\* start of the message only when <name> is the name of the error; a
\* message without the prefix, or with the prefix of another name, also of
\* a longer name that starts with the name of the error, is returned as it
\* is.
C27_PrefixOfOwnNameOnly ==
    extraction.called =>
        LET name == extraction.error.name
            message == extraction.error.message
            own == S_GDBusError \o <<":">> \o name \o <<":", " ">>
        IN  /\ \A n \in MessageNames :
                  (n # name /\ IsPrefix(GDBusPrefix(n), message)) =>
                      extraction.message = message
            /\ ~IsPrefix(S_GDBusError, message) =>
                  extraction.message = message
            /\ IF Len(message) >= Len(own)
                    /\ \A i \in 1..Len(own) : message[i] = own[i]
               THEN own \o extraction.message = message
               ELSE extraction.message = message

\* The prefix of a longer name, which starts with the name of the error,
\* was left in the message.
C27_Witness ==
    /\ extraction.called
    /\ extraction.error.name = NameA
    /\ extraction.error.message = GDBusPrefix(NameA \o <<"X">>) \o S_Failed
    /\ extraction.message = extraction.error.message

SpecCache == Init /\ [][NextCache]_vars

\* C28 as stated: the introspection call is issued on the first access to
\* the specification and never again.
C28_IntrospectedOnceOnly == cache.introspections <= 1

\* C28: within one ClientObjectHandler the introspection call is issued on
\* every access to the specification until one returns a specification,
\* and never after that: the specification is fetched at most once and
\* every later create_member uses the cached one.
C28_IntrospectedUntilCached ==
    /\ cache.fetched <= 1
    /\ cache.fetched = 1 <=> cache._specification # None
    /\ cache.accesses > 0 =>
          /\ cache.issued <=> ~cache.cached
          /\ cache.cached => cache._specification # None
          /\ cache.raised = "DBusError" => (cache.issued /\ ~cache.cached)

\* Three members were made one after another with one introspection call.
C28_Witness ==
    /\ cache.accesses >= 3
    /\ cache.introspections = 1
    /\ cache.cached /\ ~cache.issued
    /\ cache.created = <<"_get_property", "_get_signal", "_get_method">>

SpecAccess == Init /\ [][NextAccess]_vars

\* The names ReleaseName was called for.
ReleasedNames(b) ==
    {b.log[i].key : i \in {j \in 1..Len(b.log) : b.log[j].kind = "ReleaseName"}}

\* The names of the release callbacks that were ever recorded.
RecordedNames(b) == {b.made[i].key : i \in 1..Len(b.made)}

\* C29: register_service raises ConnectionError when RequestName answers
\* anything but the primary owner, and then neither adds the name to the
\* requested names nor records a release callback; ReleaseName is never
\* called, by disconnect or otherwise, for a name whose registrations were
\* all refused.
C29_RefusedRegistrationLeavesNoTrace ==
    /\ (access.op = "register_service" /\ access.result # "PRIMARY_OWNER") =>
          /\ access.raised = "ConnectionError"
          /\ access.bus.requested_names = access.before.requested_names
          /\ access.bus.registrations = access.before.registrations
          /\ access.bus.made = access.before.made
          /\ access.bus.log = access.before.log
    /\ (access.op = "register_service" /\ access.result = "PRIMARY_OWNER") =>
          access.raised = "none"
    /\ \A n \in access.refused \ RecordedNames(access.bus) :
          /\ n \notin access.bus.requested_names
          /\ n \notin RegisteredServices(access.bus)
          /\ n \notin ReleasedNames(access.bus)
    /\ ReleasedNames(access.bus) \subseteq RecordedNames(access.bus)

\* One name was registered and another refused, and disconnect released
\* the registered name only.
C29_Witness ==
    /\ access.op = "disconnect"
    /\ access.refused = {"my.service.2"}
    /\ RegisteredServices(access.before) = {"my.service.1"}
    /\ ReleasedNames(access.bus) = {"my.service.1"}
    /\ access.bus.registrations = <<>>

\* C30: get_proxy(service_name) called in the main thread raises
\* RuntimeError and makes no proxy exactly when the service name is one the
\* bus has registered with register_service and not unregistered since; for
\* other names and in other threads the proxy is made.
C30_RefusedExactlyForRegisteredServices ==
    access.op = "get_proxy" =>
        /\ (access.raised = "RuntimeError")
              <=> (/\ access.thread = "MainThread"
                   /\ access.key \in RegisteredServices(access.before))
        /\ (access.proxy = <<>>) <=> (access.raised = "RuntimeError")

SpecValidation == Init /\ [][NextValidation]_vars

\* C31: an incoming call of an (interface, member) pair that is not in the
\* specification of the object uses no attribute of the published object,
\* also when the object has an attribute of that name, and ends in one
\* error reply for the missing member.
C31_UnspecifiedMemberNeverReachesObject ==
    (/\ validation.called
     /\ <<validation.interface_name, validation.member>> \notin SpecifiedMembers)
    => /\ validation.uses = <<>>
       /\ validation.effects =
            <<[do |-> "log.warning", value |-> "DBusSpecificationError"],
              [do |-> "return_dbus_error",
               value |-> [name |-> get_error_name(validation.rules,
                                       "DBusSpecificationError").value,
                          message |-> <<"str", "DBusSpecificationError">>]]>>

\* The object has an attribute named as the member of the call, the member
\* is specified in another interface only, and the attribute was not used.
C31_Witness ==
    /\ validation.called
    /\ validation.interface_name = "my.Interface"
    /\ validation.member = "Method3"
    /\ "Method3" \in validation.attributes
    /\ validation.uses = <<>>
    /\ Len(validation.effects) = 2

\* C32: when a handler raises, the failure is written to the log before
\* the error reply is sent on the invocation, nothing else is done to the
\* invocation, and the error reply carries the error name the mapper gives
\* for the class of the exception and str(error) as the message.
C32_LoggedBeforeErrorReply ==
    (/\ validation.called
     /\ Len(validation.uses) = 2
     /\ validation.outcome # "return")
    => validation.effects =
         <<[do |-> "log.warning", value |-> validation.outcome],
           [do |-> "return_dbus_error",
            value |-> [name |-> get_error_name(validation.rules,
                                               validation.outcome).value,
                       message |-> <<"str", validation.outcome>>]]>>

\* The handler raised ExceptionA while the mapper had a rule for it: the
\* log was written, then the error named by the rule was sent.
C32_Witness ==
    /\ validation.called
    /\ validation.uses = <<[do |-> "getattr", name |-> "Method1"],
                           [do |-> "call", name |-> "Method1"]>>
    /\ validation.outcome = "ExceptionA"
    /\ Len(validation.rules) = 3
    /\ validation.effects[1].do = "log.warning"
    /\ validation.effects[2].do = "return_dbus_error"
    /\ validation.effects[2].value.name = NameC

SpecForward == Init /\ [][NextForward]_vars

SpecMarshal == Init /\ [][NextMarshal]_vars

\* The parameters of the last call are a variant of the declared input
\* signature of the method.
HandedVariantOfInType ==
    /\ marshal.parameters.variant # NoneVariant
    /\ marshal.parameters.variant.t = marshal.in_type
    /\ marshal.parameters.raw = PyNone

\* C34 as stated: the parameters handed to the client library are None or
\* a variant of the declared input signature, and for a method without
\* input signature they are None, whatever the caller supplied.
C34_NoneOrVariantOfInType ==
    (marshal.called /\ marshal.transport # "none") =>
        /\ marshal.parameters = NothingHanded \/ HandedVariantOfInType
        /\ marshal.in_type = NoInType => marshal.parameters = NothingHanded

\* C34: with a declared input signature the parameters handed to the
\* client library are a variant of that signature holding the arguments;
\* without one no variant is built, and the parameters are None when the
\* caller supplied no arguments and the tuple of the caller's arguments,
\* as it is, when the caller supplied some.
C34_VariantOrArgumentsAsSupplied ==
    (marshal.called /\ marshal.transport # "none") =>
        /\ marshal.in_type # NoInType =>
              /\ HandedVariantOfInType
              /\ marshal.parameters.variant.value = PyTuple(marshal.supplied)
        /\ marshal.in_type = NoInType =>
              /\ marshal.parameters.variant = NoneVariant
              /\ marshal.parameters.raw =
                    IF marshal.supplied = <<>> THEN PyNone
                    ELSE PyTuple(marshal.supplied)

\* A method without input was called with an argument, and the call was
\* handed to the client library.
C34_Witness ==
    /\ marshal.called
    /\ marshal.in_type = NoInType
    /\ marshal.supplied = <<PyInt(1)>>
    /\ marshal.transport = "sync_call"
    /\ marshal.parameters.raw = PyTuple(<<PyInt(1)>>)

\* C35: the call of a method with a declared input signature and no
\* positional arguments raises TypeError when the variant is built, and
\* neither sync_call nor async_call is issued.
C35_NoArgumentsRefusedBeforeTransport ==
    (marshal.called /\ marshal.in_type # NoInType /\ marshal.supplied = <<>>)
        => /\ marshal.raised = "TypeError"
           /\ marshal.transport = "none"
           /\ marshal.issued = marshal.before

\* A method with the input signature (is) was called without arguments and
\* with a callback, after an earlier call was issued.
C35_Witness ==
    /\ marshal.called
    /\ marshal.in_type = <<"(", "i", "s", ")">>
    /\ marshal.supplied = <<>>
    /\ marshal.callback = "callback"
    /\ marshal.raised = "TypeError"
    /\ marshal.issued # <<>>
SpecConnecting == Init /\ [][NextConnecting]_vars

\* The last operation read the property connection.
ReadConnection == connecting.op \in {"connection", "check_connection"}

\* C36: a connection that is kept is returned by every access without a
\* call of _get_connection; without one, _get_connection is called and a
\* connection it returns is a new one, which is kept; disconnect forgets
\* the connection; and check_connection never raises and returns False
\* when _get_connection raises or returns None.
C36_ConnectionCachedUntilDisconnect ==
    /\ (ReadConnection /\ connecting.before # NoConnection) =>
          /\ ~connecting.asked
          /\ connecting.raised = "none"
          /\ connecting.value = connecting.before
          /\ connecting.bus._connection = connecting.before
    /\ (ReadConnection /\ connecting.before = NoConnection) =>
          /\ connecting.asked
          /\ connecting.outcome = "connection" =>
                /\ connecting.value = connecting.bus.created
                /\ connecting.bus._connection = connecting.value
                /\ connecting.value # NoConnection
          /\ connecting.outcome # "connection" =>
                connecting.bus._connection = NoConnection
    /\ connecting.op = "disconnect" =>
          connecting.bus._connection = NoConnection
    /\ connecting.op = "check_connection" =>
          /\ connecting.raised = "none"
          /\ connecting.check = (connecting.bus._connection # NoConnection)
          /\ (connecting.before = NoConnection
                /\ connecting.outcome \in {"None", "IOError"})
                => ~connecting.check
          /\ connecting.warned =
                (connecting.before = NoConnection
                    /\ connecting.outcome = "IOError")

\* After a disconnect the second connection was created and then returned
\* again by an access for which _get_connection would have failed.
C36_Witness ==
    /\ connecting.op = "check_connection"
    /\ connecting.prev = "connection"
    /\ connecting.outcome = "IOError"
    /\ connecting.before = 2
    /\ connecting.check
    /\ ~connecting.asked
SpecSharing == Init /\ [][NextSharing]_vars

SpecPublication == Init /\ [][NextPublication]_vars

\* C39: when publish_object raised and disconnect() followed, the handler
\* made by that call of publish_object has no object registered on the
\* connection.
C39_FailedPublicationLeavesNothing ==
    (publication.op = "disconnect"
        /\ publication.prev = "publish_object"
        /\ publication.prev_raised # "none")
        => publication.bus.handlers[publication.handler].o.registered = {}
\* C38: every name in the set of requested names of the bus has a release
\* callback outstanding in the table of registrations, and after
\* unregister_service(name) the name is not in the set.
C38_RequestedNamesAreRegistered ==
    /\ \A n \in bus.requested_names :
          /\ DictIndex(bus.registrations, n) # 0
          /\ bus.registrations[DictIndex(bus.registrations, n)].value.kind
                = "ReleaseName"
    /\ busLast.op = "unregister_service" =>
          busLast.key \notin bus.requested_names
\* The service the bus of the release check registers.
ReleasedService == "my.service.1"

\* The lifecycle calls of a bus with one service, whose name requests are
\* answered by the bus as they are for a name nobody else owns.
NextRelease ==
    \/ RegisterService(ReleasedService,
                       IF ReleasedService \in bus.owned THEN "ALREADY_OWNER"
                       ELSE "PRIMARY_OWNER")
    \/ \E p \in ObjectPaths, i \in ObjectInterfaces : PublishObject(p, i)
    \/ \E p \in ObjectPaths : UnpublishObject(p)
    \/ UnregisterService(ReleasedService)
    \/ BusDisconnect

SpecRelease == Init /\ [][NextRelease]_vars

\* The callbacks the bus has called so far.
ReleasedCallbacks == {bus.log[i] : i \in 1..Len(bus.log)}

\* unpublish_object or unregister_service of a key that has no registration
\* changes nothing.
UnregisterOfMissingKeyDoesNothing ==
    /\ \A p \in ObjectPaths :
          (UnpublishObject(p) /\ DictIndex(bus.registrations, p) = 0)
              => bus' = bus
    /\ (UnregisterService(ReleasedService)
          /\ DictIndex(bus.registrations, ReleasedService) = 0)
          => bus' = bus

\* No callback was called twice, and no callback that was called is still
\* in the table.
ReleasedAtMostOnce ==
    /\ \A i, j \in 1..Len(bus.log) :
          bus.log[i].id = bus.log[j].id => i = j
    /\ \A k \in 1..Len(bus.registrations) :
          bus.registrations[k].value \notin ReleasedCallbacks

\* C40: whatever the order of unpublish_object, unregister_service and
\* disconnect, the release callback of a registration is called at most
\* once, a callback that was called is not kept for disconnect, and
\* unpublishing a path that is not registered does nothing.
C40_ReleasedAtMostOnce ==
    /\ []ReleasedAtMostOnce
    /\ [][UnregisterOfMissingKeyDoesNothing]_vars

\* An object was unpublished, a service was unregistered, and disconnect
\* released the one registration that was left.
C40_Witness ==
    /\ busLast.op = "disconnect"
    /\ busLast.prevOp = "unregister_service"
    /\ busLast.logLen = 2
    /\ Len(bus.log) = 3
    /\ {bus.log[i].kind : i \in 1..2} = {"disconnect_object", "ReleaseName"}
====
